---------------------------- MODULE Spec2Model ----------------------------
(***************************************************************************)
(* Model of the Common Crawl harvesting scripts: the record merge engine   *)
(* (normalize_url, choose_better_record, deduplicate_records), the         *)
(* resumable page downloader (main_downloader), the byte-range segment     *)
(* downloader (process_record), the task enumeration (create_tasks.py)     *)
(* and the per-index harvester (cc_merge_indexes.py).                      *)
(*                                                                         *)
(* Strings are TLA+ strings; TLC evaluates Len, SubSeq and \o on them, so  *)
(* the string functions of the scripts are computed character by           *)
(* character.                                                              *)
(***************************************************************************)
EXTENDS Integers, Sequences, FiniteSets, TLC

VARIABLES
    old, new, chosen,          \* choose_better_record: its arguments and result
    fed, unique,               \* deduplicate_records: records consumed, the dict
    url1, url2, key1, key2,    \* normalize_url: two inputs and their keys
    \* main_downloader
    dlpc,                      \* "stopped", "round", "log" or "done"
    files,                     \* OUTPUT_DIR: file name -> number of lines on disk
    log,                       \* COMPLETED_LOG_FILE: the lines on disk
    completed_tasks_ids,       \* the set built at startup
    tasks_to_do,               \* the ids submitted in the current round
    future,                    \* id -> "running" or the result of fetch_page
    uncollected,               \* futures the result loop has not taken yet
    tasks_failed_this_run,
    tasks_completed_this_batch,
    writing,                   \* the id whose page file is open, or ""
    log_i,                     \* how many ids of the batch are written to the log
    attempt,                   \* the round number
    kills,                     \* how often the process was killed
    \* the segment downloader (download_warc_segments.py)
    segpc,                     \* main thread: "stopped", "submit", "drain" or "done"
    dirs,                      \* OUTPUT_DIR: dirs[n + 1] is batch_n, file name -> "partial" or "full"
    success_log,               \* SUCCESS_LOG: the lines on disk
    fail_log,                  \* LOG_FILE: the urls that have a line in it
    completed_hashes,          \* the set loaded at startup
    gen_pos,                   \* the next line of INPUT_JSONL generate_tasks reads
    total_to_download,
    futures,                   \* submitted records whose future main still holds
    tstate,                    \* record -> where its process_record call stands
    tdir,                      \* record -> the batch number get_target_directory returned
    dir_check_lock, success_log_lock, fail_log_lock,   \* the holder, or 0
    success_count, failed_count,
    segkills,                  \* how often the process was killed
    \* one call of fetch_page or of fetch_segment
    fn,                        \* the file whose function is called
    call_pc,                   \* "request", "sleep", "returned" or "raised"
    call_attempt,              \* the loop variable attempt
    call_length,               \* fetch_segment: the length of the record
    call_requests,             \* the requests issued so far
    call_last,                 \* the outcome of the last request
    call_sleeps,               \* the time.sleep arguments so far
    call_result,               \* what the call returned
    call_payload,              \* fetch_segment: the number of bytes returned
    \* the chunk writer of extract_from_warc.py
    xpc,                       \* "stopped", "loop" or "done"
    chunks,                    \* OUTPUT_DATA_DIR: chunk number -> records in data_NNNNN.jsonl
    chunk_index,
    records_in_current_chunk,
    output_file_handle,        \* the number of the open chunk, 0 for None
    results_left,              \* the results the pool has still to deliver
    xkills,                    \* how often the process was killed
    \* the task enumeration of create_tasks.py
    ctpc,                      \* "stopped", "loop", "probe", "probe_sleep", "probed", "write" or "done"
    tasks_file,                \* TASKS_FILE: the lines on disk
    processed_indexes,
    indexes_to_query,
    index_pos,                 \* the position of index_name in indexes_to_query
    probe_attempt,             \* get_num_pages: the loop variable attempt
    probe_requests,            \* get_num_pages: the requests issued in this call
    probe_sleeps,              \* get_num_pages: the time.sleep arguments in this call
    probe_response,            \* get_num_pages: the last answer, in a tuple
    num_pages,                 \* <<n>>, or <<>> for None
    tasks_for_index,
    tasks_written,             \* how many lines of tasks_for_index are on disk
    ctkills,                   \* how often the process was killed
    \* the per-index harvester of cc_merge_indexes.py
    hpc,                       \* "stopped", "loop", "collect", "shutdown", "returned", "write" or "merge"
    batch_files,               \* OUTPUT_DIR: index -> the records in guardian_<index>.jsonl
    idx_pos,                   \* the position of idx in INDEXES
    h_num_pages,               \* num_pages of fetch_from_index
    page_futures,              \* page + 1 -> "running" or what fetch_page returned
    as_completed,              \* the futures the result loop has not taken yet
    all_records,
    has_failed,
    recs,                      \* what fetch_from_index returned
    recs_written,              \* how many records of recs are in the batch file
    hkills,                    \* how often the process was killed
    \* task ids and page file names
    task1, task2,              \* two tasks of a catalog
    parsed1, parsed2,          \* the ids read off their file names, in tuples
    \* main_merge_and_deduplicate
    mpc,                       \* "loop" or "done"
    merge_input,               \* OUTPUT_DIR: the records of each .jsonl file, by sorted name
    batch_i,                   \* the loop variable i
    global_unique,
    temp_merged,               \* TEMP_MERGED: the records saved after the last batch
    merged                     \* OUTPUT: the records saved at the end

chooseVars == <<old, new, chosen>>
dedupVars  == <<fed, unique>>
urlVars    == <<url1, url2, key1, key2>>
dlDisk     == <<files, log>>
dlMemory   == <<completed_tasks_ids, tasks_to_do, future, uncollected,
                tasks_failed_this_run, tasks_completed_this_batch, writing,
                log_i, attempt>>
dlVars     == <<dlpc, dlDisk, dlMemory, kills>>
segDisk    == <<dirs, success_log, fail_log>>
segLocks   == <<dir_check_lock, success_log_lock, fail_log_lock>>
segMain    == <<completed_hashes, gen_pos, total_to_download, futures,
                success_count, failed_count>>
segVars    == <<segpc, segDisk, segLocks, segMain, tstate, tdir, segkills>>
callVars   == <<fn, call_pc, call_attempt, call_length, call_requests, call_last,
                call_sleeps, call_result, call_payload>>
extractVars == <<xpc, chunks, chunk_index, records_in_current_chunk,
                 output_file_handle, results_left, xkills>>
tasksVars  == <<ctpc, tasks_file, processed_indexes, indexes_to_query, index_pos,
                probe_attempt, probe_requests, probe_sleeps, probe_response,
                num_pages, tasks_for_index, tasks_written, ctkills>>
harvestVars == <<hpc, batch_files, idx_pos, h_num_pages, page_futures,
                 as_completed, all_records, has_failed, recs, recs_written, hkills>>
nameVars   == <<task1, task2, parsed1, parsed2>>
mergeVars  == <<mpc, merge_input, batch_i, global_unique, temp_merged, merged>>
notDl      == <<chooseVars, dedupVars, urlVars, segVars, callVars, extractVars, tasksVars, harvestVars, nameVars, mergeVars>>
notSeg     == <<chooseVars, dedupVars, urlVars, dlVars, callVars, extractVars, tasksVars, harvestVars, nameVars, mergeVars>>
notCall    == <<chooseVars, dedupVars, urlVars, dlVars, segVars, extractVars, tasksVars, harvestVars, nameVars, mergeVars>>
notExtract == <<chooseVars, dedupVars, urlVars, dlVars, segVars, callVars, tasksVars,
                harvestVars, nameVars, mergeVars>>
notTasks   == <<chooseVars, dedupVars, urlVars, dlVars, segVars, callVars, extractVars,
                harvestVars, nameVars, mergeVars>>
notHarvest == <<chooseVars, dedupVars, urlVars, dlVars, segVars, callVars, extractVars,
                tasksVars, nameVars, mergeVars>>
notNames   == <<chooseVars, dedupVars, urlVars, dlVars, segVars, callVars, extractVars,
                tasksVars, harvestVars, mergeVars>>
notMerge   == <<chooseVars, dedupVars, urlVars, dlVars, segVars, callVars, extractVars,
                tasksVars, harvestVars, nameVars>>
vars       == <<chooseVars, dedupVars, urlVars, dlVars, segVars, callVars, extractVars,
                tasksVars, harvestVars, nameVars, mergeVars>>

(***************************************************************************)
(* Python string helpers.                                                  *)
(***************************************************************************)
Char(s, i) == SubSeq(s, i, i)

\* c in s, for a one-character string c
InStr(c, s) == \E i \in 1..Len(s) : Char(s, i) = c

\* s.find(c, from) with 1-based positions: the first position >= from holding c,
\* or 0 when there is none
Find(s, c, from) ==
    LET hits == {i \in from..Len(s) : Char(s, i) = c}
    IN  IF hits = {} THEN 0 ELSE CHOOSE i \in hits : \A j \in hits : i <= j

\* s.rfind(c)
RFind(s, c) ==
    LET hits == {i \in 1..Len(s) : Char(s, i) = c}
    IN  IF hits = {} THEN 0 ELSE CHOOSE i \in hits : \A j \in hits : i >= j

\* sub in s
Contains(s, sub) ==
    \E i \in 1..(Len(s) - Len(sub) + 1) : SubSeq(s, i, i + Len(sub) - 1) = sub

\* s.startswith(prefix)
StartsWith(s, prefix) ==
    Len(s) >= Len(prefix) /\ SubSeq(s, 1, Len(prefix)) = prefix

UpperChars == "ABCDEFGHIJKLMNOPQRSTUVWXYZ"
LowerChars == "abcdefghijklmnopqrstuvwxyz"
DigitChars == "0123456789"

LowerChar(c) ==
    LET i == Find(UpperChars, c, 1)
    IN  IF i = 0 THEN c ELSE Char(LowerChars, i)

\* s.lower()
RECURSIVE Lower(_)
Lower(s) == IF s = "" THEN "" ELSE LowerChar(Char(s, 1)) \o Lower(SubSeq(s, 2, Len(s)))

\* s.rstrip(c)
RECURSIVE RStrip(_, _)
RStrip(s, c) ==
    IF s # "" /\ Char(s, Len(s)) = c THEN RStrip(SubSeq(s, 1, Len(s) - 1), c) ELSE s

\* Code points of the characters the inputs use, in ASCII order.
AsciiOrder == "#+-./0123456789:;=?ABCDEFGHIJKLMNOPQRSTUVWXYZ_abcdefghijklmnopqrstuvwxyz"
Ord(c) == Find(AsciiOrder, c, 1)

\* a > b on Python strings (lexicographic by code point)
RECURSIVE StrGreater(_, _)
StrGreater(a, b) ==
    IF a = "" THEN FALSE
    ELSE IF b = "" THEN TRUE
    ELSE IF Char(a, 1) # Char(b, 1) THEN Ord(Char(a, 1)) > Ord(Char(b, 1))
    ELSE StrGreater(SubSeq(a, 2, Len(a)), SubSeq(b, 2, Len(b)))

\* int(s) succeeds: s is a non-empty string of decimal digits
IsInt(s) == s # "" /\ \A i \in 1..Len(s) : InStr(Char(s, i), DigitChars)

\* int(s) for such a string
RECURSIVE IntOf(_)
IntOf(s) ==
    IF s = "" THEN 0
    ELSE 10 * IntOf(SubSeq(s, 1, Len(s) - 1)) + (Find(DigitChars, Char(s, Len(s)), 1) - 1)

(***************************************************************************)
(* urllib.parse.urlparse, as normalize_url calls it: the scheme up to the  *)
(* first ":", the netloc after "//" up to the first of "/", "?", "#", then *)
(* the fragment, the query and (for the schemes that carry them) the       *)
(* parameters are cut off the path.                                        *)
(***************************************************************************)
SchemeChars == LowerChars \o UpperChars \o DigitChars \o "+-."
UsesParams  == {"", "ftp", "hdl", "prospero", "http", "imap", "https", "shttp",
                "rtsp", "rtspu", "sip", "sips", "mms", "sftp", "tel"}

\* the position of the first of "/", "?", "#" at or after `from`, or Len(s) + 1
NetlocEnd(s, from) ==
    LET hits == {i \in from..Len(s) : Char(s, i) \in {"/", "?", "#"}}
    IN  IF hits = {} THEN Len(s) + 1 ELSE CHOOSE i \in hits : \A j \in hits : i <= j

\* s cut before position i (the whole of s when i = 0)
Before(s, i) == IF i = 0 THEN s ELSE SubSeq(s, 1, i - 1)
\* s after position i ("" when i = 0)
After(s, i) == IF i = 0 THEN "" ELSE SubSeq(s, i + 1, Len(s))

urlparse(url) ==
    LET colon     == Find(url, ":", 1)
        hasScheme == /\ colon > 1
                     /\ InStr(Char(url, 1), LowerChars \o UpperChars)
                     /\ \A i \in 1..(colon - 1) : InStr(Char(url, i), SchemeChars)
        scheme    == IF hasScheme THEN Lower(SubSeq(url, 1, colon - 1)) ELSE ""
        rest1     == IF hasScheme THEN SubSeq(url, colon + 1, Len(url)) ELSE url
        hasNetloc == StartsWith(rest1, "//")
        nend      == NetlocEnd(rest1, 3)
        netloc    == IF hasNetloc THEN SubSeq(rest1, 3, nend - 1) ELSE ""
        rest2     == IF hasNetloc THEN SubSeq(rest1, nend, Len(rest1)) ELSE rest1
        hash      == Find(rest2, "#", 1)
        fragment  == After(rest2, hash)
        rest3     == Before(rest2, hash)
        qmark     == Find(rest3, "?", 1)
        query     == After(rest3, qmark)
        rest4     == Before(rest3, qmark)
        slash     == RFind(rest4, "/")
        semi      == IF scheme \in UsesParams
                     THEN Find(rest4, ";", IF slash = 0 THEN 1 ELSE slash)
                     ELSE 0
    IN  [scheme |-> scheme, netloc |-> netloc, path |-> Before(rest4, semi),
         params |-> After(rest4, semi), query |-> query, fragment |-> fragment]

\* normalize_url with its www. test left out
normalize_url_keep_www(url) ==
    LET parsed == urlparse(url)
    IN  Lower(parsed.netloc) \o RStrip(parsed.path, "/")

\* normalize_url with the query string kept in the key
normalize_url_with_query(url) ==
    LET parsed == urlparse(url)
        netloc == Lower(parsed.netloc)
        host   == IF StartsWith(netloc, "www.") THEN SubSeq(netloc, 5, Len(netloc)) ELSE netloc
    IN  host \o RStrip(parsed.path, "/")
             \o (IF parsed.query = "" THEN "" ELSE "?" \o parsed.query)

normalize_url(url) ==
    LET parsed  == urlparse(url)
        netloc0 == Lower(parsed.netloc)
        netloc  == IF StartsWith(netloc0, "www.")
                   THEN SubSeq(netloc0, 5, Len(netloc0))
                   ELSE netloc0
        path    == RStrip(parsed.path, "/")
    IN  netloc \o path

(***************************************************************************)
(* Raw index records.  A record carries its url, status, mime-detected,    *)
(* length and timestamp, all strings as in the CDX JSON lines; "" stands   *)
(* for an absent or empty field.                                           *)
(***************************************************************************)
MaxRecords == 3

UrlAWww   == "http://www.a.co/x/"
UrlAHttps == "https://A.co/x"
UrlB      == "http://a.co/y"

Statuses   == {"200", "404"}
MimeTypes  == {"text/html", "Application/XHTML+xml", "application/pdf", ""}
Lengths    == {"90", "500", "n/a"}
Timestamps == {"20240101000000", "20250101000000"}

Records ==
    [url : {UrlAWww, UrlAHttps}, status : Statuses, mime_detected : MimeTypes,
     length : Lengths, timestamp : Timestamps]

\* the inputs of the deduplication runs: two spellings of one page, a second
\* page and a record without url
DedupRecords ==
    [url : {UrlAWww, UrlAHttps, UrlB, ""}, status : {"200"},
     mime_detected : {"text/html"}, length : {"90", "500"}, timestamp : Timestamps]

is_html(rec) == Contains(Lower(rec.mime_detected), "html")

\* choose_better_record without its second status test
choose_better_record_no_old_200(o, n) ==
    IF o.status # "200" /\ n.status = "200" THEN n
    ELSE IF is_html(o) /\ ~is_html(n) THEN o
    ELSE IF ~is_html(o) /\ is_html(n) THEN n
    ELSE IF IsInt(n.length) /\ IsInt(o.length) /\ IntOf(n.length) > IntOf(o.length) THEN n
    ELSE IF StrGreater(n.timestamp, o.timestamp) THEN n
    ELSE o

\* choose_better_record with the length test ahead of the html tests
choose_better_record_length_first(o, n) ==
    IF o.status # "200" /\ n.status = "200" THEN n
    ELSE IF o.status = "200" /\ n.status # "200" THEN o
    ELSE IF IsInt(n.length) /\ IsInt(o.length) /\ IntOf(n.length) > IntOf(o.length) THEN n
    ELSE IF is_html(o) /\ ~is_html(n) THEN o
    ELSE IF ~is_html(o) /\ is_html(n) THEN n
    ELSE IF StrGreater(n.timestamp, o.timestamp) THEN n
    ELSE o

\* choose_better_record with >= in place of > in the timestamp test
choose_better_record_newest_on_tie(o, n) ==
    IF o.status # "200" /\ n.status = "200" THEN n
    ELSE IF o.status = "200" /\ n.status # "200" THEN o
    ELSE IF is_html(o) /\ ~is_html(n) THEN o
    ELSE IF ~is_html(o) /\ is_html(n) THEN n
    ELSE IF IsInt(n.length) /\ IsInt(o.length) /\ IntOf(n.length) > IntOf(o.length) THEN n
    ELSE IF ~StrGreater(o.timestamp, n.timestamp) THEN n
    ELSE o

choose_better_record(o, n) ==
    IF o.status # "200" /\ n.status = "200" THEN n
    ELSE IF o.status = "200" /\ n.status # "200" THEN o
    ELSE IF is_html(o) /\ ~is_html(n) THEN o
    ELSE IF ~is_html(o) /\ is_html(n) THEN n
    \* int() of either length raising ValueError skips the length test
    ELSE IF IsInt(n.length) /\ IsInt(o.length) /\ IntOf(n.length) > IntOf(o.length) THEN n
    ELSE IF StrGreater(n.timestamp, o.timestamp) THEN n
    ELSE o

EmptyMap == <<>>

\* lines 206-209: the record is compared with the one already under its
\* key, or takes the free key
dedup_put(map, key, rec) ==
    IF key \in DOMAIN map
    THEN [map EXCEPT ![key] = choose_better_record(map[key], rec)]
    ELSE map @@ (key :> rec)

\* the loop body of deduplicate_records keyed by the raw url
dedup_step_raw_key(map, rec) ==
    IF rec.url = "" THEN map ELSE dedup_put(map, rec.url, rec)

\* the loop body of deduplicate_records: one record folded into the dict
dedup_step(map, rec) ==
    IF rec.url = "" THEN map ELSE dedup_put(map, normalize_url(rec.url), rec)

\* deduplicate_records(records, existing_map): the dict after the whole loop
RECURSIVE deduplicate_records(_, _)
deduplicate_records(records, existing_map) ==
    IF records = <<>> THEN existing_map
    ELSE deduplicate_records(Tail(records), dedup_step(existing_map, Head(records)))

(***************************************************************************)
(* The URLs given to normalize_url, written out from their parts.          *)
(***************************************************************************)
MaxSlashes == 1

Schemes  == {"http", "https"}
WwwParts == {"", "www.", "WWW."}
Hosts    == {"a.co", "A.Co", "b.co"}
Paths    == {"", "/x"}
Queries  == {"", "?p=1", "?p=2"}

UrlParts ==
    [scheme : Schemes, www : WwwParts, host : Hosts, path : Paths,
     slashes : 0..MaxSlashes, query : Queries]

RECURSIVE Slashes(_)
Slashes(n) == IF n = 0 THEN "" ELSE "/" \o Slashes(n - 1)

FormatUrl(p) ==
    p.scheme \o "://" \o p.www \o p.host \o p.path \o Slashes(p.slashes) \o p.query

(***************************************************************************)
(* main_downloader.  The catalog is the content of TASKS_FILE; a task id   *)
(* is "<index>_<page>" and its result goes to page_<id>.jsonl.  The disk   *)
(* (files, log) outlives a kill of the process, the memory does not.       *)
(***************************************************************************)
MaxRounds == 2
MaxKills  == 2

IndexA == "CC-MAIN-2025-38"
IndexB == "CC-MAIN-2012"

Catalog ==
    {[index |-> IndexA, page |-> 0], [index |-> IndexA, page |-> 1],
     [index |-> IndexB, page |-> 0]}

\* str(n) for n >= 0
RECURSIVE Str(_)
Str(n) == IF n < 10 THEN Char(DigitChars, n + 1) ELSE Str(n \div 10) \o Char(DigitChars, (n % 10) + 1)

\* f"{task['index']}_{task['page']}"
task_id(task) == task.index \o "_" \o Str(task.page)

all_tasks == {task_id(task) : task \in Catalog}

\* f"page_{task_id}.jsonl"
page_filename(id) == "page_" \o id \o ".jsonl"

\* the number of JSON lines the index serves for a task: two, one and none
ResultLines(id) ==
    IF id = task_id([index |-> IndexA, page |-> 0]) THEN 2
    ELSE IF id = task_id([index |-> IndexA, page |-> 1]) THEN 1
    ELSE 0

\* s.endswith(suffix)
EndsWith(s, suffix) ==
    Len(s) >= Len(suffix) /\ SubSeq(s, Len(s) - Len(suffix) + 1, Len(s)) = suffix

\* a variant that cuts "jsonl" and leaves the dot
id_of_filename_keeps_dot(filename) == SubSeq(filename, 6, Len(filename) - 5)

\* line 91: filename[5:-6]
id_of_filename(filename) == SubSeq(filename, 6, Len(filename) - 6)

\* a variant that takes empty page files as well
ids_from_files_any_size(dir) ==
    {id_of_filename(f) :
        f \in {g \in DOMAIN dir : StartsWith(g, "page_") /\ EndsWith(g, ".jsonl")}}

\* lines 84-92: the ids read off the non-empty page_*.jsonl files
ids_from_files(dir) ==
    {id_of_filename(f) :
        f \in {g \in DOMAIN dir : /\ StartsWith(g, "page_")
                                   /\ EndsWith(g, ".jsonl")
                                   /\ dir[g] > 0}}

\* line.strip(): the line without its leading and trailing blanks
RECURSIVE Strip(_)
Strip(s) ==
    IF s = "" THEN s
    ELSE IF Char(s, 1) = " " THEN Strip(SubSeq(s, 2, Len(s)))
    ELSE IF Char(s, Len(s)) = " " THEN Strip(SubSeq(s, 1, Len(s) - 1))
    ELSE s

\* lines 96-100: the stripped lines of the completion log
ids_from_log(lines) == {Strip(lines[i]) : i \in 1..Len(lines)}

MemoryCleared ==
    /\ completed_tasks_ids = {}
    /\ tasks_to_do = {}
    /\ future = <<>>
    /\ uncollected = {}
    /\ tasks_failed_this_run = {}
    /\ tasks_completed_this_batch = <<>>
    /\ writing = ""
    /\ log_i = 0
    /\ attempt = 0

\* lines 123-133: a round starts, every task of tasks_to_do is submitted
SubmitRound(todo) ==
    /\ tasks_to_do' = todo
    /\ future' = [id \in todo |-> "running"]
    /\ uncollected' = todo
    /\ tasks_failed_this_run' = {}
    /\ tasks_completed_this_batch' = <<>>
    /\ log_i' = 0

\* lines 71-121: the run starts; the completed set is rebuilt from the page
\* files and the log, and what is left of the catalog is submitted
StartDownloader ==
    /\ dlpc = "stopped"
    /\ LET done == ids_from_files(files) \cup ids_from_log(log)
           todo == {id \in all_tasks : id \notin done}
       IN  /\ completed_tasks_ids' = done
           /\ IF todo = {}
              THEN /\ dlpc' = "done"
                   /\ UNCHANGED <<tasks_to_do, future, uncollected, tasks_failed_this_run,
                                  tasks_completed_this_batch, log_i, attempt>>
              ELSE /\ dlpc' = "round"
                   /\ attempt' = 1
                   /\ SubmitRound(todo)
    /\ UNCHANGED <<writing, dlDisk, kills>>
    /\ UNCHANGED notDl

\* lines 23-54: a worker thread runs fetch_page to its return value: the
\* list of records, "Fatal error: ..." or "Failed after ..."
FetchPage(id, result) ==
    /\ dlpc = "round"
    /\ id \in DOMAIN future
    /\ future[id] = "running"
    /\ future' = [future EXCEPT ![id] = result]
    /\ UNCHANGED <<dlpc, dlDisk, completed_tasks_ids, tasks_to_do, uncollected,
                   tasks_failed_this_run, tasks_completed_this_batch, writing,
                   log_i, attempt, kills>>
    /\ UNCHANGED notDl

\* lines 135-144: the result loop takes a finished future that holds a list
\* and opens the page file for writing, which empties it
OpenPageFile(id) ==
    /\ dlpc = "round" /\ writing = ""
    /\ id \in uncollected /\ future[id] = "list"
    /\ uncollected' = uncollected \ {id}
    /\ writing' = id
    /\ files' = IF page_filename(id) \in DOMAIN files
                THEN [files EXCEPT ![page_filename(id)] = 0]
                ELSE files @@ (page_filename(id) :> 0)
    /\ UNCHANGED <<dlpc, log, completed_tasks_ids, tasks_to_do, future,
                   tasks_failed_this_run, tasks_completed_this_batch, log_i,
                   attempt, kills>>
    /\ UNCHANGED notDl

\* lines 144, 149-151: open() raises IOError
OpenPageFileFails(id) ==
    /\ dlpc = "round" /\ writing = ""
    /\ id \in uncollected /\ future[id] = "list"
    /\ uncollected' = uncollected \ {id}
    /\ tasks_failed_this_run' = tasks_failed_this_run \cup {id}
    /\ UNCHANGED <<dlpc, dlDisk, completed_tasks_ids, tasks_to_do, future,
                   tasks_completed_this_batch, writing, log_i, attempt, kills>>
    /\ UNCHANGED notDl

\* lines 145-146: one more record reaches the page file
WriteLine(id) ==
    /\ dlpc = "round" /\ writing = id /\ id # ""
    /\ files[page_filename(id)] < ResultLines(id)
    /\ files' = [files EXCEPT ![page_filename(id)] = @ + 1]
    /\ UNCHANGED <<dlpc, log, dlMemory, kills>>
    /\ UNCHANGED notDl

\* a variant that counts the task as completed although its write raised
batch_with_failed_write(batch, id) == Append(batch, id)

\* what an IOError in the middle of the write adds to the batch: nothing
batch_after_ioerror(batch, id) == batch

\* lines 145-146, 149-151: a write raises IOError
WriteFails(id) ==
    /\ dlpc = "round" /\ writing = id /\ id # ""
    /\ writing' = ""
    /\ tasks_failed_this_run' = tasks_failed_this_run \cup {id}
    /\ tasks_completed_this_batch' = batch_after_ioerror(tasks_completed_this_batch, id)
    /\ UNCHANGED <<dlpc, dlDisk, completed_tasks_ids, tasks_to_do, future, uncollected,
                   log_i, attempt, kills>>
    /\ UNCHANGED notDl

\* lines 144-148: every record is written, the file is closed and the id
\* joins the batch
ClosePageFile(id) ==
    /\ dlpc = "round" /\ writing = id /\ id # ""
    /\ files[page_filename(id)] = ResultLines(id)
    /\ writing' = ""
    /\ tasks_completed_this_batch' = Append(tasks_completed_this_batch, id)
    /\ UNCHANGED <<dlpc, dlDisk, completed_tasks_ids, tasks_to_do, future, uncollected,
                   tasks_failed_this_run, log_i, attempt, kills>>
    /\ UNCHANGED notDl

\* lines 152-154: the result is an error string
CollectFailure(id) ==
    /\ dlpc = "round" /\ writing = ""
    /\ id \in uncollected /\ future[id] \in {"Fatal error", "Failed after"}
    /\ uncollected' = uncollected \ {id}
    /\ tasks_failed_this_run' = tasks_failed_this_run \cup {id}
    /\ UNCHANGED <<dlpc, dlDisk, completed_tasks_ids, tasks_to_do, future,
                   tasks_completed_this_batch, writing, log_i, attempt, kills>>
    /\ UNCHANGED notDl

\* line 155: every future is collected and the executor is left
EndRound ==
    /\ dlpc = "round" /\ writing = "" /\ uncollected = {}
    /\ dlpc' = "log"
    /\ UNCHANGED <<dlDisk, dlMemory, kills>>
    /\ UNCHANGED notDl

\* a variant that opens the log with "w": the line replaces the log
log_file_rewrite(lines, id) == <<id>>

\* lines 122, 159: the log is opened with "a", the line goes to its end
log_file_write(lines, id) == Append(lines, id)

\* lines 156-160: the next id of the batch goes to the completion log
LogWrite ==
    /\ dlpc = "log"
    /\ log_i < Len(tasks_completed_this_batch)
    /\ log' = log_file_write(log, tasks_completed_this_batch[log_i + 1])
    /\ log_i' = log_i + 1
    /\ UNCHANGED <<dlpc, files, completed_tasks_ids, tasks_to_do, future, uncollected,
                   tasks_failed_this_run, tasks_completed_this_batch, writing,
                   attempt, kills>>
    /\ UNCHANGED notDl

\* variant: the round's tasks are all submitted again
next_round_tasks_all(failed, todo) == todo

\* variant: the failed tasks are forgotten
next_round_tasks_none(failed, todo) == {}

\* line 162: tasks_to_do = tasks_failed_this_run
next_round_tasks(failed, todo) == failed

\* lines 162-168: the failed tasks are the next round's tasks, whatever made
\* them fail and however many rounds there were; the round number is only
\* printed and is counted up to MaxRounds here
NextRound ==
    /\ dlpc = "log"
    /\ log_i = Len(tasks_completed_this_batch)
    /\ tasks_failed_this_run # {}
    /\ attempt' = IF attempt < MaxRounds THEN attempt + 1 ELSE attempt
    /\ SubmitRound(next_round_tasks(tasks_failed_this_run, tasks_to_do))
    /\ dlpc' = "round"
    /\ UNCHANGED <<dlDisk, completed_tasks_ids, writing, kills>>
    /\ UNCHANGED notDl

\* lines 162, 169-173: nothing failed, the run returns True
Finish ==
    /\ dlpc = "log"
    /\ log_i = Len(tasks_completed_this_batch)
    /\ tasks_failed_this_run = {}
    /\ dlpc' = "done"
    /\ tasks_to_do' = {}
    /\ UNCHANGED <<dlDisk, completed_tasks_ids, future, uncollected, tasks_failed_this_run,
                   tasks_completed_this_batch, writing, log_i, attempt, kills>>
    /\ UNCHANGED notDl

\* the process is killed: the memory is gone, the disk stays as it is
KillDownloader ==
    /\ dlpc \in {"round", "log"}
    /\ kills < MaxKills
    /\ kills' = kills + 1
    /\ dlpc' = "stopped"
    /\ completed_tasks_ids' = {}
    /\ tasks_to_do' = {}
    /\ future' = <<>>
    /\ uncollected' = {}
    /\ tasks_failed_this_run' = {}
    /\ tasks_completed_this_batch' = <<>>
    /\ writing' = ""
    /\ log_i' = 0
    /\ attempt' = 0
    /\ UNCHANGED dlDisk
    /\ UNCHANGED notDl

FetchResults == {"list", "Fatal error", "Failed after"}

(***************************************************************************)
(* The segment downloader.  main() submits one process_record call per     *)
(* record of INPUT_JSONL that the success log does not list; the worker    *)
(* threads run the calls.  dirs, success_log and fail_log are the disk.    *)
(* md5 is taken to be injective, and the urls of INPUT_JSONL to be         *)
(* distinct.                                                               *)
(***************************************************************************)
NumRecords  == 3
MaxSegKills == 1

\* the sizes of lines 18-20 (64, 5000 and MAX_WORKERS * 4), scaled down
MAX_WORKERS           == 2
MAX_FILES_PER_DIR     == 2
MAX_FUTURES_IN_FLIGHT == 2

InputRecords == 1..NumRecords

\* record["url"] of the i-th line of INPUT_JSONL
record_url(i) == "https://www.theguardian.com/p/" \o Str(i)

\* f"{md5(url)}.warc.gz"
safe_filename(url) == "md5(" \o url \o ").warc.gz"

SegMemoryCleared ==
    /\ completed_hashes = {}
    /\ gen_pos = 0
    /\ total_to_download = 0
    /\ futures = {}
    /\ tstate = [i \in InputRecords |-> "none"]
    /\ tdir = [i \in InputRecords |-> 0]
    /\ dir_check_lock = 0 /\ success_log_lock = 0 /\ fail_log_lock = 0
    /\ success_count = 0 /\ failed_count = 0

\* a process_record call that is over: it returned "success" or "failed", or
\* an exception left it
Finished == {"success", "failed", "raised"}

\* the threads inside process_record
Running == {i \in InputRecords :
              tstate[i] \notin {"none", "queued"} \cup Finished}

\* a variant of generate_tasks that skips nothing
next_task_no_skip(from, done) ==
    IF from \in InputRecords THEN from ELSE 0

\* generate_tasks: the next line at or after `from` that is not skipped, or 0
next_task(from, done) ==
    LET left == {i \in InputRecords : i >= from /\ safe_filename(record_url(i)) \notin done}
    IN  IF left = {} THEN 0 ELSE CHOOSE i \in left : \A j \in left : i <= j

\* lines 149-194: the success log is loaded and the records to download are
\* counted
StartSegments ==
    /\ segpc = "stopped"
    /\ LET done == {success_log[k] : k \in 1..Len(success_log)}
           todo == {i \in InputRecords : safe_filename(record_url(i)) \notin done}
       IN  /\ completed_hashes' = done
           /\ total_to_download' = Cardinality(todo)
           /\ segpc' = IF todo = {} THEN "done" ELSE "submit"
    /\ gen_pos' = 1
    /\ UNCHANGED <<segDisk, segLocks, futures, success_count, failed_count,
                   tstate, tdir, segkills>>
    /\ UNCHANGED notSeg

\* variant: main never waits before it submits
futures_full_never(n) == FALSE

\* line 201: len(futures) >= MAX_FUTURES_IN_FLIGHT
futures_full(n) == n >= MAX_FUTURES_IN_FLIGHT

\* variant: every with block is entered at once
lock_free_always(holder) == TRUE

\* lines 25-31, 62, 67, 76: a threading.Lock is taken when no thread holds it
lock_free(holder) == holder = 0

\* variant: only successes are counted
failed_after_result_unchanged(n, status) == n

\* lines 208-209, 213 and 227-228, 232: every result that is not "success",
\* and every exception, adds one to failed_count
failed_after_result(n, status) == IF status = "success" THEN n ELSE n + 1

\* variant: future.result() is called outside any try block
after_executor_error_uncaught(pc) == "crashed"

\* lines 211-213 and 230-232: except Exception, the loop of main goes on
after_executor_error(pc) == pc

\* lines 206-214 and 225-233: the result of a finished future is counted; a
\* future that holds an exception is logged as "unknown_url" by main, which
\* takes fail_log_lock for it, and counted as failed
count_result(i) ==
    /\ success_count' = IF tstate[i] = "success" THEN success_count + 1 ELSE success_count
    /\ failed_count' = failed_after_result(failed_count, tstate[i])
    /\ tstate[i] = "raised" => lock_free(fail_log_lock)
    /\ fail_log' = IF tstate[i] = "raised" THEN fail_log \cup {"unknown_url"} ELSE fail_log
    /\ segpc' = IF tstate[i] = "raised" THEN after_executor_error(segpc) ELSE segpc

\* lines 200-214: the futures list is full; main waits for a finished future,
\* removes it and counts it
WaitForOne(i) ==
    /\ segpc = "submit"
    /\ next_task(gen_pos, completed_hashes) # 0
    /\ futures_full(Cardinality(futures))
    /\ i \in futures /\ tstate[i] \in Finished
    /\ futures' = futures \ {i}
    /\ count_result(i)
    /\ UNCHANGED <<dirs, success_log, segLocks, completed_hashes, gen_pos,
                   total_to_download, tstate, tdir, segkills>>
    /\ UNCHANGED notSeg

\* lines 200, 218-219: the next record generate_tasks yields is submitted
Submit ==
    /\ segpc = "submit"
    /\ ~futures_full(Cardinality(futures))
    /\ LET i == next_task(gen_pos, completed_hashes)
       IN  /\ i # 0
           /\ futures' = futures \cup {i}
           /\ tstate' = [tstate EXCEPT ![i] = "queued"]
           /\ gen_pos' = i + 1
    /\ UNCHANGED <<segpc, segDisk, segLocks, completed_hashes, total_to_download,
                   success_count, failed_count, tdir, segkills>>
    /\ UNCHANGED notSeg

\* line 200: generate_tasks is exhausted
EndSubmit ==
    /\ segpc = "submit"
    /\ next_task(gen_pos, completed_hashes) = 0
    /\ segpc' = "drain"
    /\ UNCHANGED <<segDisk, segLocks, segMain, tstate, tdir, segkills>>
    /\ UNCHANGED notSeg

\* lines 223-233: the remaining futures are counted as they finish
Drain(i) ==
    /\ segpc = "drain"
    /\ i \in futures /\ tstate[i] \in Finished
    /\ futures' = futures \ {i}
    /\ count_result(i)
    /\ UNCHANGED <<dirs, success_log, segLocks, completed_hashes, gen_pos,
                   total_to_download, tstate, tdir, segkills>>
    /\ UNCHANGED notSeg

\* lines 235-244: all futures are counted, the summary is printed
FinishSegments ==
    /\ segpc = "drain"
    /\ futures = {}
    /\ segpc' = "done"
    /\ UNCHANGED <<segDisk, segLocks, segMain, tstate, tdir, segkills>>
    /\ UNCHANGED notSeg

\* a free worker thread takes a queued call: process_record begins
BeginRecord(i) ==
    /\ segpc \in {"submit", "drain"}
    /\ tstate[i] = "queued"
    /\ Cardinality(Running) < MAX_WORKERS
    /\ tstate' = [tstate EXCEPT ![i] = "want_dir"]
    /\ UNCHANGED <<segpc, segDisk, segLocks, segMain, tdir, segkills>>
    /\ UNCHANGED notSeg

\* line 76: with dir_check_lock
AcquireDirLock(i) ==
    /\ tstate[i] = "want_dir"
    /\ lock_free(dir_check_lock)
    /\ dir_check_lock' = i
    /\ tstate' = [tstate EXCEPT ![i] = "in_dir"]
    /\ UNCHANGED <<segpc, segDisk, success_log_lock, fail_log_lock, segMain, tdir, segkills>>
    /\ UNCHANGED notSeg

\* lines 77-98: batch_0000 when there is no batch directory, else the latest
\* one, or the one after it when the latest holds MAX_FILES_PER_DIR files
target_directory(d) ==
    IF Len(d) = 0 THEN 0
    ELSE IF Cardinality(DOMAIN d[Len(d)]) >= MAX_FILES_PER_DIR THEN Len(d)
    ELSE Len(d) - 1

\* lines 77-101: the target directory is chosen and created, the lock released
ChooseDirectory(i) ==
    /\ tstate[i] = "in_dir"
    /\ LET n == target_directory(dirs)
       IN  /\ tdir' = [tdir EXCEPT ![i] = n]
           /\ dirs' = IF n + 1 > Len(dirs) THEN Append(dirs, <<>>) ELSE dirs
    /\ dir_check_lock' = 0
    /\ tstate' = [tstate EXCEPT ![i] = "fetch"]
    /\ UNCHANGED <<segpc, success_log, fail_log, success_log_lock, fail_log_lock,
                   segMain, segkills>>
    /\ UNCHANGED notSeg

\* lines 77-100, 115: os.listdir or os.makedirs raises (the disk is full, a
\* permission is missing): the with block releases the lock and the exception
\* leaves process_record, whose try block begins at line 119
DirectoryFails(i) ==
    /\ tstate[i] = "in_dir"
    /\ dir_check_lock' = 0
    /\ tstate' = [tstate EXCEPT ![i] = "raised"]
    /\ UNCHANGED <<segpc, segDisk, success_log_lock, fail_log_lock, segMain, tdir, segkills>>
    /\ UNCHANGED notSeg

\* lines 38-58, 120: fetch_segment returns the bytes, or raises after its
\* last attempt
FetchSegment(i, ok) ==
    /\ tstate[i] = "fetch"
    /\ tstate' = [tstate EXCEPT ![i] = IF ok THEN "open" ELSE "want_faillog"]
    /\ UNCHANGED <<segpc, segDisk, segLocks, segMain, tdir, segkills>>
    /\ UNCHANGED notSeg

\* the directory with file `name` put in state `st`
put_file(d, n, name, st) ==
    [d EXCEPT ![n + 1] = IF name \in DOMAIN @ THEN [@ EXCEPT ![name] = st]
                         ELSE @ @@ (name :> st)]

\* line 121: open(output_path, "wb") creates or empties the file
OpenOutput(i) ==
    /\ tstate[i] = "open"
    /\ dirs' = put_file(dirs, tdir[i], safe_filename(record_url(i)), "partial")
    /\ tstate' = [tstate EXCEPT ![i] = "write"]
    /\ UNCHANGED <<segpc, success_log, fail_log, segLocks, segMain, tdir, segkills>>
    /\ UNCHANGED notSeg

\* lines 121-122: the bytes are written and the file is closed
WriteOutput(i) ==
    /\ tstate[i] = "write"
    /\ dirs' = put_file(dirs, tdir[i], safe_filename(record_url(i)), "full")
    /\ tstate' = [tstate EXCEPT ![i] = "want_succlog"]
    /\ UNCHANGED <<segpc, success_log, fail_log, segLocks, segMain, tdir, segkills>>
    /\ UNCHANGED notSeg

\* where process_record goes when the open or the write raises: to the
\* except branch
after_write_error(i) == "want_faillog"

\* lines 121-122, 125: open or write raises
OutputFails(i) ==
    /\ tstate[i] \in {"open", "write"}
    /\ tstate' = [tstate EXCEPT ![i] = after_write_error(i)]
    /\ UNCHANGED <<segpc, segDisk, segLocks, segMain, tdir, segkills>>
    /\ UNCHANGED notSeg

\* line 67: with success_log_lock
AcquireSuccessLock(i) ==
    /\ tstate[i] = "want_succlog"
    /\ lock_free(success_log_lock)
    /\ success_log_lock' = i
    /\ tstate' = [tstate EXCEPT ![i] = "in_succlog"]
    /\ UNCHANGED <<segpc, segDisk, dir_check_lock, fail_log_lock, segMain, tdir, segkills>>
    /\ UNCHANGED notSeg

\* lines 68-69, 124: the hash is appended to the success log; "success"
LogSuccess(i) ==
    /\ tstate[i] = "in_succlog"
    /\ success_log' = Append(success_log, safe_filename(record_url(i)))
    /\ success_log_lock' = 0
    /\ tstate' = [tstate EXCEPT ![i] = "success"]
    /\ UNCHANGED <<segpc, dirs, fail_log, dir_check_lock, fail_log_lock, segMain,
                   tdir, segkills>>
    /\ UNCHANGED notSeg

\* lines 68, 125: the success log cannot be opened or written; the lock is
\* released and process_record goes to its except branch
LogSuccessFails(i) ==
    /\ tstate[i] = "in_succlog"
    /\ success_log_lock' = 0
    /\ tstate' = [tstate EXCEPT ![i] = "want_faillog"]
    /\ UNCHANGED <<segpc, segDisk, dir_check_lock, fail_log_lock, segMain, tdir, segkills>>
    /\ UNCHANGED notSeg

\* line 62: with fail_log_lock
AcquireFailLock(i) ==
    /\ tstate[i] = "want_faillog"
    /\ lock_free(fail_log_lock)
    /\ fail_log_lock' = i
    /\ tstate' = [tstate EXCEPT ![i] = "in_faillog"]
    /\ UNCHANGED <<segpc, segDisk, dir_check_lock, success_log_lock, segMain, tdir, segkills>>
    /\ UNCHANGED notSeg

\* lines 63-64, 126-128: the url is appended to the failure log, of which
\* the model keeps the urls and not the order of the lines; "failed"
LogFailure(i) ==
    /\ tstate[i] = "in_faillog"
    /\ fail_log' = fail_log \cup {record_url(i)}
    /\ fail_log_lock' = 0
    /\ tstate' = [tstate EXCEPT ![i] = "failed"]
    /\ UNCHANGED <<segpc, dirs, success_log, dir_check_lock, success_log_lock, segMain,
                   tdir, segkills>>
    /\ UNCHANGED notSeg

\* the process is killed: threads, locks and counters are gone, the disk stays
KillSegments ==
    /\ segpc \in {"submit", "drain"}
    /\ segkills < MaxSegKills
    /\ segkills' = segkills + 1
    /\ segpc' = "stopped"
    /\ completed_hashes' = {}
    /\ gen_pos' = 0
    /\ total_to_download' = 0
    /\ futures' = {}
    /\ tstate' = [i \in InputRecords |-> "none"]
    /\ tdir' = [i \in InputRecords |-> 0]
    /\ dir_check_lock' = 0 /\ success_log_lock' = 0 /\ fail_log_lock' = 0
    /\ success_count' = 0 /\ failed_count' = 0
    /\ UNCHANGED segDisk
    /\ UNCHANGED notSeg

(***************************************************************************)
(* One call of fetch_page (download_and_merge.py, cc_merge_indexes.py) or  *)
(* of fetch_segment (download_warc_segments.py, fetch_guardian_fulltext.py)*)
(* The server's answers are the environment's choice.                      *)
(***************************************************************************)
FetchPageFiles    == {"download_and_merge", "cc_merge_indexes"}
FetchSegmentFiles == {"download_warc_segments", "fetch_guardian_fulltext"}

\* the parameter or local `retries` of the function
retries(f) ==
    IF f = "download_and_merge" THEN 5
    ELSE IF f = "cc_merge_indexes" THEN 20
    ELSE 3

\* the parameter or local `backoff` of the function
backoff(f) == IF f \in FetchPageFiles THEN 3 ELSE 2

\* range(1, retries + 1) in fetch_page, range(retries) in fetch_segment
first_attempt(f) == IF f \in FetchPageFiles THEN 1 ELSE 0
last_attempt(f) == IF f \in FetchPageFiles THEN retries(f) ELSE retries(f) - 1

RECURSIVE Pow2(_)
Pow2(n) == IF n = 0 THEN 1 ELSE 2 * Pow2(n - 1)

\* the argument of time.sleep after a failed attempt
sleep_time(f, a) ==
    IF f \in FetchPageFiles THEN backoff(f) * a
    ELSE IF f = "download_warc_segments" THEN backoff(f) * Pow2(a)
    ELSE backoff(f) * (a + 1)

\* what a page request can end with: a status code or a network exception
PageOutcomes == {"200", "404", "400", "503", "ConnectionError"}

\* download_and_merge.py lines 35-52, cc_merge_indexes.py lines 27-50: one
\* request of fetch_page and what the function does with its outcome
RequestPage(o) ==
    /\ fn \in FetchPageFiles
    /\ call_pc = "request"
    /\ call_requests' = call_requests + 1
    /\ call_last' = o
    /\ IF o = "200"
       THEN call_pc' = "returned" /\ call_result' = "list"
       ELSE IF fn = "download_and_merge"
       THEN IF o \in {"404", "400"}
            THEN call_pc' = "returned" /\ call_result' = "Fatal error"
            ELSE call_pc' = "sleep" /\ UNCHANGED call_result
       ELSE IF call_attempt = retries(fn)
            THEN call_pc' = "returned" /\ call_result' = "None"
            ELSE call_pc' = "sleep" /\ UNCHANGED call_result
    /\ UNCHANGED <<fn, call_attempt, call_length, call_sleeps, call_payload>>
    /\ UNCHANGED notCall

\* download_and_merge.py lines 49-54, cc_merge_indexes.py lines 44-47: the
\* sleep after a failed attempt, then the next attempt or the end of the loop
SleepAfterFailedPage ==
    /\ fn \in FetchPageFiles
    /\ call_pc = "sleep"
    /\ call_sleeps' = Append(call_sleeps, sleep_time(fn, call_attempt))
    /\ IF call_attempt < last_attempt(fn)
       THEN /\ call_attempt' = call_attempt + 1
            /\ call_pc' = "request"
            /\ UNCHANGED call_result
       ELSE /\ call_pc' = "returned"
            /\ call_result' = "Failed after"
            /\ UNCHANGED call_attempt
    /\ UNCHANGED <<fn, call_length, call_requests, call_last, call_payload>>
    /\ UNCHANGED notCall

\* record["length"], the Content-Length header (0 when it is missing) and the
\* number of bytes that arrive
ByteCounts == {0, 4, 7}

\* the answers to a range request: a status or a network exception, the
\* Content-Length header and the bytes of the body
SegmentResponses ==
    [status : {"206", "200", "503", "ConnectionError"},
     content_length : ByteCounts,
     body : ByteCounts]

\* a variant in which no function checks the length
length_check_never(f, resp, length) == TRUE

\* download_warc_segments.py lines 50-52: the Content-Length check; the
\* function of fetch_guardian_fulltext.py has none
length_check_passes(f, resp, length) ==
    f = "fetch_guardian_fulltext" \/ resp.content_length = length

\* lines 54-58 (44-48): the except branch: sleep and try again, or raise
\* after the last attempt
after_failed_segment ==
    IF call_attempt < last_attempt(fn)
    THEN call_pc' = "sleep"
    ELSE call_pc' = "raised"

\* download_warc_segments.py lines 46-58, fetch_guardian_fulltext.py lines
\* 39-48: one request of fetch_segment.  When fewer bytes arrive than the
\* Content-Length header announced, reading the body either raises
\* (ChunkedEncodingError) or returns the bytes that came, depending on the
\* version of the http library: `raises` is that choice
RequestSegment(resp, raises) ==
    /\ fn \in FetchSegmentFiles
    /\ call_pc = "request"
    /\ call_requests' = call_requests + 1
    /\ call_last' = resp.status
    /\ IF resp.status \notin {"206", "200"}
       THEN after_failed_segment /\ UNCHANGED <<call_result, call_payload>>
       ELSE IF ~length_check_passes(fn, resp, call_length)
       THEN after_failed_segment /\ UNCHANGED <<call_result, call_payload>>
       ELSE IF resp.body < resp.content_length /\ raises
       THEN after_failed_segment /\ UNCHANGED <<call_result, call_payload>>
       ELSE /\ call_pc' = "returned"
            /\ call_result' = "content"
            /\ call_payload' = resp.body
    /\ UNCHANGED <<fn, call_attempt, call_length, call_sleeps>>
    /\ UNCHANGED notCall

\* lines 55-56 (45-46): the sleep before the next attempt
SleepAfterFailedSegment ==
    /\ fn \in FetchSegmentFiles
    /\ call_pc = "sleep"
    /\ call_sleeps' = Append(call_sleeps, sleep_time(fn, call_attempt))
    /\ call_attempt' = call_attempt + 1
    /\ call_pc' = "request"
    /\ UNCHANGED <<fn, call_length, call_requests, call_last, call_result, call_payload>>
    /\ UNCHANGED notCall

(***************************************************************************)
(* The chunk writer of extract_from_warc.py: main() writes the results of  *)
(* the pool to data_NNNNN.jsonl files of FILES_PER_CHUNK records.  Each    *)
(* WARC file gives one result; a file whose record is in a chunk is not    *)
(* processed again.                                                        *)
(***************************************************************************)
NumWarcFiles    == 4
MaxExtractKills == 2

\* the size of line 23 (10000), scaled down
FILES_PER_CHUNK == 2

RECURSIVE RecordsIn(_)
\* the records of all chunk files: the processed ids of lines 190-201
RecordsIn(data) ==
    IF DOMAIN data = {} THEN 0
    ELSE LET n == CHOOSE m \in DOMAIN data : TRUE
         IN  data[n] + RecordsIn([m \in DOMAIN data \ {n} |-> data[m]])

\* a variant that numbers the chunks of every run from 1
first_chunk_index_from_one(data) == 1

\* line 236: len(glob("data_*.jsonl")) + 1
first_chunk_index(data) == Cardinality(DOMAIN data) + 1

\* lines 208-237: the run starts; the files without a record are to be
\* processed, and the chunk numbering continues after the chunks on the disk
StartExtract ==
    /\ xpc = "stopped"
    /\ results_left' = NumWarcFiles - RecordsIn(chunks)
    /\ xpc' = IF NumWarcFiles - RecordsIn(chunks) = 0 THEN "done" ELSE "loop"
    /\ chunk_index' = first_chunk_index(chunks)
    /\ output_file_handle' = 0
    /\ records_in_current_chunk' = 0
    /\ UNCHANGED <<chunks, xkills>>
    /\ UNCHANGED notExtract

\* lines 240-244: a result that is empty or an error; nothing goes to a chunk
ResultWithoutRecord ==
    /\ xpc = "loop"
    /\ results_left > 0
    /\ results_left' = results_left - 1
    /\ UNCHANGED <<xpc, chunks, chunk_index, records_in_current_chunk,
                   output_file_handle, xkills>>
    /\ UNCHANGED notExtract

\* line 247: a record is to be written and no chunk is open, or the open one
\* is full
needs_new_chunk ==
    output_file_handle = 0 \/ records_in_current_chunk >= FILES_PER_CHUNK

\* lines 247-254: the next chunk file is opened with "a", which creates it
OpenChunk ==
    /\ xpc = "loop"
    /\ results_left > 0
    /\ needs_new_chunk
    /\ chunks' = IF chunk_index \in DOMAIN chunks THEN chunks
                 ELSE chunks @@ (chunk_index :> 0)
    /\ output_file_handle' = chunk_index
    /\ chunk_index' = chunk_index + 1
    /\ records_in_current_chunk' = 0
    /\ UNCHANGED <<xpc, results_left, xkills>>
    /\ UNCHANGED notExtract

\* lines 257-258: the record is written to the open chunk
WriteRecord ==
    /\ xpc = "loop"
    /\ results_left > 0
    /\ ~needs_new_chunk
    /\ chunks' = [chunks EXCEPT ![output_file_handle] = @ + 1]
    /\ records_in_current_chunk' = records_in_current_chunk + 1
    /\ results_left' = results_left - 1
    /\ UNCHANGED <<xpc, chunk_index, output_file_handle, xkills>>
    /\ UNCHANGED notExtract

\* lines 262-270: the results are exhausted, the open chunk is closed
FinishExtract ==
    /\ xpc = "loop"
    /\ results_left = 0
    /\ xpc' = "done"
    /\ output_file_handle' = 0
    /\ UNCHANGED <<chunks, chunk_index, records_in_current_chunk, results_left, xkills>>
    /\ UNCHANGED notExtract

\* the process is killed: the chunk files stay
KillExtract ==
    /\ xpc = "loop"
    /\ xkills < MaxExtractKills
    /\ xkills' = xkills + 1
    /\ xpc' = "stopped"
    /\ chunk_index' = 0
    /\ records_in_current_chunk' = 0
    /\ output_file_handle' = 0
    /\ results_left' = 0
    /\ UNCHANGED chunks
    /\ UNCHANGED notExtract

(***************************************************************************)
(* The task enumeration of create_tasks.py: get_processed_indexes reads    *)
(* TASKS_FILE, main probes the page count of every index that has no task  *)
(* line yet (get_num_pages) and appends one line per page.  writelines     *)
(* goes through Python's file buffer, which reaches the disk in blocks     *)
(* that end anywhere: a process killed before f.flush() returns leaves a   *)
(* prefix of the lines, the last one possibly cut.                         *)
(***************************************************************************)
MaxPages     == 2
MaxTaskKills == 2

\* INDEXES (line 12), two of its entries
INDEXES == <<IndexA, IndexB>>

\* line 33 and line 34 of get_num_pages
probe_retries == 5
probe_backoff == 3

\* a line of TASKS_FILE: the task it was written for, whether json.loads
\* accepts it, and whether it ends with "\n"
task_line(index_name, page) ==
    [index |-> index_name, page |-> page, json |-> TRUE, nl |-> TRUE]

\* the first bytes of a task line, cut before its closing brace
cut_line(index_name, page) ==
    [index |-> index_name, page |-> page, json |-> FALSE, nl |-> FALSE]

\* open(TASKS_FILE, "a") writes at the end of the file whatever the last byte
\* is: a line written after a cut line continues it, and json.loads rejects
\* the result
append_line(data, line) ==
    IF Len(data) > 0 /\ ~data[Len(data)].nl
    THEN [data EXCEPT ![Len(data)].nl = TRUE]
    ELSE Append(data, line)

\* the first bytes of a line reach the disk: after a cut line they lengthen it
append_cut(data, line) ==
    IF Len(data) > 0 /\ ~data[Len(data)].nl
    THEN data
    ELSE Append(data, line)

\* variant of get_processed_indexes: no index counts as processed
get_processed_indexes_none(data) == {}

\* lines 16-28: the index of every line json.loads accepts
get_processed_indexes(data) ==
    {data[k].index : k \in {j \in 1..Len(data) : data[j].json}}

\* line 66: [idx for idx in INDEXES if idx not in processed_indexes]
RECURSIVE not_processed(_, _)
not_processed(seq, processed) ==
    IF seq = <<>> THEN <<>>
    ELSE IF Head(seq) \in processed
         THEN not_processed(Tail(seq), processed)
         ELSE <<Head(seq)>> \o not_processed(Tail(seq), processed)

\* a line of the probe's response: text json.loads rejects, an object without
\* "pages", or an object whose "pages" is n
ResponseLines ==
    {[json |-> FALSE, pages |-> <<>>], [json |-> TRUE, pages |-> <<>>]}
        \cup {[json |-> TRUE, pages |-> <<n>>] : n \in 0..MaxPages}

\* what session.get and raise_for_status give: a RequestException, or the
\* lines of resp.text.strip().splitlines()
ProbeResponses ==
    {[raised |-> TRUE, lines |-> <<>>]}
        \cup {[raised |-> FALSE, lines |-> ls] :
                ls \in {<<>>} \cup {<<l>> : l \in ResponseLines}
                        \cup {<<[json |-> FALSE, pages |-> <<>>], l>> : l \in ResponseLines}}

\* lines 40-48: page_info.get("pages", 1) of the first line that is JSON, 1
\* when there is none
RECURSIVE pages_of(_)
pages_of(lines) ==
    IF lines = <<>> THEN 1
    ELSE IF Head(lines).json
         THEN IF Head(lines).pages = <<>> THEN 1 ELSE Head(lines).pages[1]
         ELSE pages_of(Tail(lines))

\* variant: the probe sleeps the same time after every failed attempt
probe_sleep_time_constant(a) == probe_backoff

\* line 52: time.sleep(backoff * attempt)
probe_sleep_time(a) == probe_backoff * a

\* lines 84-91: the lines of one index
tasks_of(index_name, n) == [k \in 1..n |-> task_line(index_name, k - 1)]

TasksMemoryCleared ==
    /\ processed_indexes = {}
    /\ indexes_to_query = <<>>
    /\ index_pos = 0
    /\ probe_attempt = 0
    /\ probe_requests = 0
    /\ probe_sleeps = <<>>
    /\ probe_response = <<>>
    /\ num_pages = <<>>
    /\ tasks_for_index = <<>>
    /\ tasks_written = 0

\* lines 57-77: main up to the loop; with nothing to query it returns at
\* line 71
StartCreateTasks ==
    /\ ctpc \in {"stopped", "done"}
    /\ processed_indexes' = get_processed_indexes(tasks_file)
    /\ indexes_to_query' = not_processed(INDEXES, processed_indexes')
    /\ index_pos' = 1
    /\ ctpc' = IF indexes_to_query' = <<>> THEN "done" ELSE "loop"
    /\ probe_attempt' = 0
    /\ probe_requests' = 0
    /\ probe_sleeps' = <<>>
    /\ probe_response' = <<>>
    /\ num_pages' = <<>>
    /\ tasks_for_index' = <<>>
    /\ tasks_written' = 0
    /\ UNCHANGED <<tasks_file, ctkills>>
    /\ UNCHANGED notTasks

\* lines 78-80 and 30-35: the next index, get_num_pages is called
CallGetNumPages ==
    /\ ctpc = "loop"
    /\ index_pos <= Len(indexes_to_query)
    /\ ctpc' = "probe"
    /\ probe_attempt' = 1
    /\ probe_requests' = 0
    /\ probe_sleeps' = <<>>
    /\ probe_response' = <<>>
    /\ num_pages' = <<>>
    /\ UNCHANGED <<tasks_file, processed_indexes, indexes_to_query, index_pos,
                   tasks_for_index, tasks_written, ctkills>>
    /\ UNCHANGED notTasks

\* lines 36-52: one probe request.  An answer ends the function with the page
\* count; a RequestException leads to the sleep, and on the last attempt to
\* the end of the loop and return None (<<>>)
ProbeRequest(resp) ==
    /\ ctpc = "probe"
    /\ probe_requests' = probe_requests + 1
    /\ probe_response' = <<resp>>
    /\ IF ~resp.raised
       THEN ctpc' = "probed" /\ num_pages' = <<pages_of(resp.lines)>>
       ELSE IF probe_attempt < probe_retries
       THEN ctpc' = "probe_sleep" /\ UNCHANGED num_pages
       ELSE ctpc' = "probed" /\ num_pages' = <<>>
    /\ UNCHANGED <<tasks_file, processed_indexes, indexes_to_query, index_pos,
                   probe_attempt, probe_sleeps, tasks_for_index, tasks_written,
                   ctkills>>
    /\ UNCHANGED notTasks

\* line 52 and the next turn of the loop of line 35
ProbeSleep ==
    /\ ctpc = "probe_sleep"
    /\ probe_sleeps' = Append(probe_sleeps, probe_sleep_time(probe_attempt))
    /\ probe_attempt' = probe_attempt + 1
    /\ ctpc' = "probe"
    /\ UNCHANGED <<tasks_file, processed_indexes, indexes_to_query, index_pos,
                   probe_requests, probe_response, num_pages, tasks_for_index,
                   tasks_written, ctkills>>
    /\ UNCHANGED notTasks

\* line 82: num_pages is None, the index gets no task in this run
SkipIndex ==
    /\ ctpc = "probed"
    /\ num_pages = <<>>
    /\ index_pos' = index_pos + 1
    /\ ctpc' = "loop"
    /\ UNCHANGED <<tasks_file, processed_indexes, indexes_to_query,
                   probe_attempt, probe_requests, probe_sleeps, probe_response,
                   num_pages, tasks_for_index, tasks_written, ctkills>>
    /\ UNCHANGED notTasks

\* lines 82-91: the list of the lines of the index
BuildTasks ==
    /\ ctpc = "probed"
    /\ num_pages # <<>>
    /\ tasks_for_index' = tasks_of(indexes_to_query[index_pos], num_pages[1])
    /\ tasks_written' = 0
    /\ ctpc' = "write"
    /\ UNCHANGED <<tasks_file, processed_indexes, indexes_to_query, index_pos,
                   probe_attempt, probe_requests, probe_sleeps, probe_response,
                   num_pages, ctkills>>
    /\ UNCHANGED notTasks

\* lines 94-95: one more line of the list reaches the disk
WriteTaskLine ==
    /\ ctpc = "write"
    /\ tasks_written < Len(tasks_for_index)
    /\ tasks_file' = append_line(tasks_file, tasks_for_index[tasks_written + 1])
    /\ tasks_written' = tasks_written + 1
    /\ UNCHANGED <<ctpc, processed_indexes, indexes_to_query, index_pos,
                   probe_attempt, probe_requests, probe_sleeps, probe_response,
                   num_pages, tasks_for_index, ctkills>>
    /\ UNCHANGED notTasks

\* lines 95-96 and 78: f.flush() has returned, the loop goes on
FlushTasks ==
    /\ ctpc = "write"
    /\ tasks_written = Len(tasks_for_index)
    /\ index_pos' = index_pos + 1
    /\ ctpc' = "loop"
    /\ UNCHANGED <<tasks_file, processed_indexes, indexes_to_query,
                   probe_attempt, probe_requests, probe_sleeps, probe_response,
                   num_pages, tasks_for_index, tasks_written, ctkills>>
    /\ UNCHANGED notTasks

\* lines 98-100: the loop is over
EndCreateTasks ==
    /\ ctpc = "loop"
    /\ index_pos > Len(indexes_to_query)
    /\ ctpc' = "done"
    /\ UNCHANGED <<tasks_file, processed_indexes, indexes_to_query, index_pos,
                   probe_attempt, probe_requests, probe_sleeps, probe_response,
                   num_pages, tasks_for_index, tasks_written, ctkills>>
    /\ UNCHANGED notTasks

\* the process is killed; during lines 94-95 the block that reached the disk
\* last may end inside the next line (cut)
KillCreateTasks(cut) ==
    /\ ctpc \in {"loop", "probe", "probe_sleep", "probed", "write"}
    /\ ctkills < MaxTaskKills
    /\ cut => ctpc = "write" /\ tasks_written < Len(tasks_for_index)
    /\ tasks_file' =
          IF cut
          THEN append_cut(tasks_file,
                          cut_line(indexes_to_query[index_pos], tasks_written))
          ELSE tasks_file
    /\ ctkills' = ctkills + 1
    /\ ctpc' = "stopped"
    /\ processed_indexes' = {}
    /\ indexes_to_query' = <<>>
    /\ index_pos' = 0
    /\ probe_attempt' = 0
    /\ probe_requests' = 0
    /\ probe_sleeps' = <<>>
    /\ probe_response' = <<>>
    /\ num_pages' = <<>>
    /\ tasks_for_index' = <<>>
    /\ tasks_written' = 0
    /\ UNCHANGED notTasks

(***************************************************************************)
(* The per-index harvester of cc_merge_indexes.py: the loop over INDEXES   *)
(* skips an index whose batch file exists, fetch_from_index asks for the   *)
(* page count once and fetches all pages in a thread pool, and the loop    *)
(* writes the batch file of the index.                                     *)
(***************************************************************************)
MaxHarvestKills == 1

\* the records fetch_page returned for a page: None and a response without
\* lines give none
page_result(index_name, page, result) ==
    IF result = "records" THEN <<[index |-> index_name, page |-> page]>> ELSE <<>>

\* what fetch_page (lines 20-51) returns: None, [] or the records of the page
PageResults == {"None", "empty", "records"}

\* the answers to the page-count request of lines 64-74: an exception, a
\* status that is not 200, a 200 whose first line is no JSON object with
\* "pages" (json.loads or [0] raises, or .get gives the default), or the count
CountAnswers ==
    {[ok |-> FALSE, pages |-> 1]} \cup {[ok |-> TRUE, pages |-> n] : n \in 0..MaxPages}

HarvestMemoryCleared ==
    /\ idx_pos = 0
    /\ h_num_pages = 0
    /\ page_futures = <<>>
    /\ as_completed = {}
    /\ all_records = <<>>
    /\ has_failed = FALSE
    /\ recs = <<>>
    /\ recs_written = 0

\* line 108: os.makedirs, the loop begins
StartHarvest ==
    /\ hpc \in {"stopped", "merge"}
    /\ hpc' = "loop"
    /\ idx_pos' = 1
    /\ h_num_pages' = 0
    /\ page_futures' = <<>>
    /\ as_completed' = {}
    /\ all_records' = <<>>
    /\ has_failed' = FALSE
    /\ recs' = <<>>
    /\ recs_written' = 0
    /\ UNCHANGED <<batch_files, hkills>>
    /\ UNCHANGED notHarvest

\* lines 110-114: the batch file of the index exists, continue
SkipExisting ==
    /\ hpc = "loop"
    /\ idx_pos <= Len(INDEXES)
    /\ INDEXES[idx_pos] \in DOMAIN batch_files
    /\ idx_pos' = idx_pos + 1
    /\ UNCHANGED <<hpc, batch_files, h_num_pages, page_futures, as_completed,
                   all_records, has_failed, recs, recs_written, hkills>>
    /\ UNCHANGED notHarvest

\* lines 62-74: num_pages is 1 unless the request gave a count
count_of(answer) == IF answer.ok THEN answer.pages ELSE 1

\* lines 117 and 54-85: fetch_from_index asks for the page count and submits
\* one fetch_page per page
SubmitPages(answer) ==
    /\ hpc = "loop"
    /\ idx_pos <= Len(INDEXES)
    /\ INDEXES[idx_pos] \notin DOMAIN batch_files
    /\ h_num_pages' = count_of(answer)
    /\ page_futures' = [p \in 1..h_num_pages' |-> "running"]
    /\ as_completed' = 1..h_num_pages'
    /\ all_records' = <<>>
    /\ has_failed' = FALSE
    /\ hpc' = "collect"
    /\ UNCHANGED <<batch_files, idx_pos, recs, recs_written, hkills>>
    /\ UNCHANGED notHarvest

\* a fetch_page call of the pool returns; page_futures[p] is page p - 1
PageReturns(p, result) ==
    /\ hpc \in {"collect", "shutdown"}
    /\ p \in DOMAIN page_futures
    /\ page_futures[p] = "running"
    /\ page_futures' = [page_futures EXCEPT ![p] = result]
    /\ UNCHANGED <<hpc, batch_files, idx_pos, h_num_pages, as_completed,
                   all_records, has_failed, recs, recs_written, hkills>>
    /\ UNCHANGED notHarvest

\* variant: has_failed is not set
failed_after_ignored(result) == FALSE

\* lines 91-95: a None result marks the index as failed
failed_after(result) == result = "None"

\* lines 89-99: as_completed hands out a finished future; its records are
\* added, or has_failed is set and the loop is left
CollectPage(p) ==
    /\ hpc = "collect"
    /\ p \in as_completed
    /\ page_futures[p] # "running"
    /\ as_completed' = as_completed \ {p}
    /\ has_failed' = failed_after(page_futures[p])
    /\ all_records' =
          all_records \o page_result(INDEXES[idx_pos], p - 1, page_futures[p])
    /\ hpc' = IF page_futures[p] = "None" \/ as_completed' = {}
              THEN "shutdown" ELSE "collect"
    /\ UNCHANGED <<batch_files, idx_pos, h_num_pages, page_futures, recs,
                   recs_written, hkills>>
    /\ UNCHANGED notHarvest

\* line 89 with no page at all: the loop body never runs
NothingToCollect ==
    /\ hpc = "collect"
    /\ as_completed = {}
    /\ hpc' = "shutdown"
    /\ UNCHANGED <<batch_files, idx_pos, h_num_pages, page_futures, as_completed,
                   all_records, has_failed, recs, recs_written, hkills>>
    /\ UNCHANGED notHarvest

\* lines 80 and 101-104: the with block waits for every fetch_page call, then
\* fetch_from_index returns [] or all_records
ReturnRecords ==
    /\ hpc = "shutdown"
    /\ \A p \in DOMAIN page_futures : page_futures[p] # "running"
    /\ recs' = IF has_failed THEN <<>> ELSE all_records
    /\ hpc' = "returned"
    /\ UNCHANGED <<batch_files, idx_pos, h_num_pages, page_futures, as_completed,
                   all_records, has_failed, recs_written, hkills>>
    /\ UNCHANGED notHarvest

\* lines 119-122: not recs, an empty batch file is created and the loop goes on
MarkProcessed ==
    /\ hpc = "returned"
    /\ recs = <<>>
    /\ batch_files' = (INDEXES[idx_pos] :> <<>>) @@ batch_files
    /\ idx_pos' = idx_pos + 1
    /\ hpc' = "loop"
    /\ UNCHANGED <<h_num_pages, page_futures, as_completed, all_records,
                   has_failed, recs, recs_written, hkills>>
    /\ UNCHANGED notHarvest

\* line 126: open(batch_path, "w")
OpenBatchFile ==
    /\ hpc = "returned"
    /\ recs # <<>>
    /\ batch_files' = (INDEXES[idx_pos] :> <<>>) @@ batch_files
    /\ recs_written' = 0
    /\ hpc' = "write"
    /\ UNCHANGED <<idx_pos, h_num_pages, page_futures, as_completed, all_records,
                   has_failed, recs, hkills>>
    /\ UNCHANGED notHarvest

\* lines 127-128: one more record reaches the file
WriteBatchRecord ==
    /\ hpc = "write"
    /\ recs_written < Len(recs)
    /\ batch_files' = [batch_files EXCEPT
                          ![INDEXES[idx_pos]] = Append(@, recs[recs_written + 1])]
    /\ recs_written' = recs_written + 1
    /\ UNCHANGED <<hpc, idx_pos, h_num_pages, page_futures, as_completed,
                   all_records, has_failed, recs, hkills>>
    /\ UNCHANGED notHarvest

\* lines 126-129: the file is closed, the loop goes on
CloseBatchFile ==
    /\ hpc = "write"
    /\ recs_written = Len(recs)
    /\ idx_pos' = idx_pos + 1
    /\ hpc' = "loop"
    /\ UNCHANGED <<batch_files, h_num_pages, page_futures, as_completed,
                   all_records, has_failed, recs, recs_written, hkills>>
    /\ UNCHANGED notHarvest

\* line 132: every index is handled, the merge begins
EndHarvestLoop ==
    /\ hpc = "loop"
    /\ idx_pos > Len(INDEXES)
    /\ hpc' = "merge"
    /\ UNCHANGED <<batch_files, idx_pos, h_num_pages, page_futures, as_completed,
                   all_records, has_failed, recs, recs_written, hkills>>
    /\ UNCHANGED notHarvest

\* the process is killed: the batch files stay as they are
KillHarvest ==
    /\ hpc \in {"loop", "collect", "shutdown", "returned", "write"}
    /\ hkills < MaxHarvestKills
    /\ hkills' = hkills + 1
    /\ hpc' = "stopped"
    /\ idx_pos' = 0
    /\ h_num_pages' = 0
    /\ page_futures' = <<>>
    /\ as_completed' = {}
    /\ all_records' = <<>>
    /\ has_failed' = FALSE
    /\ recs' = <<>>
    /\ recs_written' = 0
    /\ UNCHANGED batch_files
    /\ UNCHANGED notHarvest

(***************************************************************************)
(* The id of a task and the name of its page file, for tasks of several    *)
(* indexes of the list and of page numbers of one and of two digits.       *)
(***************************************************************************)
MaxPageNumber == 11

\* create_tasks.py line 12: names of INDEXES, the three oldest among them
IndexNames == {IndexA, IndexB, "CC-MAIN-2009-2010", "CC-MAIN-2008-2009"}

NamedTasks == [index : IndexNames, page : 0..MaxPageNumber]

\* lines 76 and 139-140 name the page files of two tasks of the catalog, line
\* 91 reads the ids back off the names
ParseNames ==
    /\ parsed1 = <<>>
    /\ parsed1' = <<id_of_filename(page_filename(task_id(task1)))>>
    /\ parsed2' = <<id_of_filename(page_filename(task_id(task2)))>>
    /\ UNCHANGED <<task1, task2>>
    /\ UNCHANGED notNames

(***************************************************************************)
(* main_merge_and_deduplicate.  The .jsonl files of OUTPUT_DIR are taken   *)
(* BATCH_SIZE at a time in the order of their names; the records of every  *)
(* batch are folded into global_unique, which is saved after every batch   *)
(* and at the end.  BATCH_SIZE is 100 in the code.                         *)
(***************************************************************************)
NumMergeFiles  == 2
MaxFileRecords == 1
BATCH_SIZE     == 1

\* the records in the files: two spellings of one page, of which the first
\* is the newer and the second the longer one, a second page and a record
\* without url
MergeRecords ==
    {r \in DedupRecords :
        \/ r.url = UrlAWww /\ r.length = "90" /\ r.timestamp = "20250101000000"
        \/ r.url = UrlAHttps /\ r.length = "500" /\ r.timestamp = "20240101000000"
        \/ r.url = UrlB /\ r.length = "90" /\ r.timestamp = "20240101000000"
        \/ r.url = "" /\ r.length = "90" /\ r.timestamp = "20240101000000"}

\* the contents a file can have: up to MaxFileRecords records
FileContents == UNION {[1..k -> MergeRecords] : k \in 0..MaxFileRecords}

\* lines 88-93: the records of the files lo..hi, one file after the other;
\* a file of size 0 gives none
RECURSIVE load_files(_, _, _)
load_files(data, lo, hi) ==
    IF lo > hi THEN <<>> ELSE data[lo] \o load_files(data, lo + 1, hi)

\* variant: every batch starts from an empty dict
running_map_fresh(map) == EmptyMap

\* line 96: existing_map=global_unique
running_map(map) == map

\* lines 65-68: save_jsonl writes the records of the dict; the order of the
\* lines is not kept here
save_jsonl(data_dict) == {data_dict[k] : k \in DOMAIN data_dict}

\* line 86, batch_files[i:i + BATCH_SIZE]: the position of the last file of the slice
slice_end(i, n) == IF i + BATCH_SIZE < n THEN i + BATCH_SIZE ELSE n

\* lines 85-101: one batch is loaded, folded into global_unique and saved
MergeBatch ==
    /\ mpc = "loop"
    /\ batch_i < Len(merge_input)
    /\ global_unique' =
          deduplicate_records(
              load_files(merge_input, batch_i + 1, slice_end(batch_i, Len(merge_input))),
              running_map(global_unique))
    /\ temp_merged' = save_jsonl(global_unique')
    /\ batch_i' = batch_i + BATCH_SIZE
    /\ UNCHANGED <<mpc, merge_input, merged>>
    /\ UNCHANGED notMerge

\* lines 103-104: the loop is over, the dict is saved to OUTPUT
FinishMerge ==
    /\ mpc = "loop"
    /\ batch_i >= Len(merge_input)
    /\ merged' = save_jsonl(global_unique)
    /\ mpc' = "done"
    /\ UNCHANGED <<merge_input, batch_i, global_unique, temp_merged>>
    /\ UNCHANGED notMerge

(***************************************************************************)
(* Specifications.  Each runs one of the programs; the variables of the    *)
(* others stay at their idle values.                                       *)
(***************************************************************************)
IdleChoose == old = <<>> /\ new = <<>> /\ chosen = <<>>
IdleDedup  == fed = <<>> /\ unique = EmptyMap
IdleUrl    == url1 = <<>> /\ url2 = <<>> /\ key1 = <<>> /\ key2 = <<>>
IdleDl     == dlpc = "off" /\ files = <<>> /\ log = <<>> /\ kills = 0 /\ MemoryCleared
IdleCall   == /\ fn = "" /\ call_pc = "off" /\ call_attempt = 0 /\ call_length = 0
              /\ call_requests = 0 /\ call_last = "" /\ call_sleeps = <<>>
              /\ call_result = "" /\ call_payload = 0
IdleExtract == /\ xpc = "off" /\ chunks = <<>> /\ chunk_index = 0
               /\ records_in_current_chunk = 0 /\ output_file_handle = 0
               /\ results_left = 0 /\ xkills = 0
IdleTasks  == ctpc = "off" /\ tasks_file = <<>> /\ ctkills = 0 /\ TasksMemoryCleared
IdleHarvest == hpc = "off" /\ batch_files = <<>> /\ hkills = 0 /\ HarvestMemoryCleared
IdleNames  == task1 = <<>> /\ task2 = <<>> /\ parsed1 = <<>> /\ parsed2 = <<>>
IdleMerge  == /\ mpc = "off" /\ merge_input = <<>> /\ batch_i = 0 /\ global_unique = <<>>
              /\ temp_merged = {} /\ merged = {}
IdleSeg    == /\ segpc = "off" /\ dirs = <<>> /\ success_log = <<>> /\ fail_log = {}
              /\ segkills = 0 /\ SegMemoryCleared

\* choose_better_record(old, new)
InitChoose ==
    /\ old \in Records
    /\ new \in Records
    /\ chosen = <<>>
    /\ IdleDedup /\ IdleUrl /\ IdleDl /\ IdleSeg /\ IdleCall /\ IdleExtract
    /\ IdleTasks /\ IdleHarvest
    /\ IdleNames /\ IdleMerge

ChooseBetter ==
    /\ chosen = <<>>
    /\ chosen' = <<choose_better_record(old, new)>>
    /\ UNCHANGED <<old, new, dedupVars, urlVars, dlVars, segVars, callVars, extractVars, tasksVars, harvestVars, nameVars, mergeVars>>

NextChoose == ChooseBetter
SpecChoose == InitChoose /\ [][NextChoose]_vars

\* deduplicate_records, one loop iteration per step
InitDedup ==
    /\ fed = <<>>
    /\ unique = EmptyMap
    /\ IdleChoose /\ IdleUrl /\ IdleDl /\ IdleSeg /\ IdleCall /\ IdleExtract
    /\ IdleTasks /\ IdleHarvest
    /\ IdleNames /\ IdleMerge

Dedup(rec) ==
    /\ Len(fed) < MaxRecords
    /\ fed' = Append(fed, rec)
    /\ unique' = dedup_step(unique, rec)
    /\ UNCHANGED <<chooseVars, urlVars, dlVars, segVars, callVars, extractVars, tasksVars, harvestVars, nameVars, mergeVars>>

NextDedup == \E rec \in DedupRecords : Dedup(rec)
SpecDedup == InitDedup /\ [][NextDedup]_vars

\* normalize_url on two URLs
InitUrl ==
    /\ url1 \in UrlParts
    /\ url2 \in UrlParts
    /\ key1 = <<>>
    /\ key2 = <<>>
    /\ IdleChoose /\ IdleDedup /\ IdleDl /\ IdleSeg /\ IdleCall /\ IdleExtract
    /\ IdleTasks /\ IdleHarvest
    /\ IdleNames /\ IdleMerge

Normalize ==
    /\ key1 = <<>>
    /\ key1' = <<normalize_url(FormatUrl(url1))>>
    /\ key2' = <<normalize_url(FormatUrl(url2))>>
    /\ UNCHANGED <<url1, url2, chooseVars, dedupVars, dlVars, segVars, callVars, extractVars, tasksVars, harvestVars, nameVars, mergeVars>>

NextUrl == Normalize
SpecUrl == InitUrl /\ [][NextUrl]_vars

\* main_downloader, killed and restarted at any point
InitDl ==
    /\ dlpc = "stopped"
    /\ files = <<>>
    /\ log = <<>>
    /\ kills = 0
    /\ MemoryCleared
    /\ IdleChoose /\ IdleDedup /\ IdleUrl /\ IdleSeg /\ IdleCall /\ IdleExtract
    /\ IdleTasks /\ IdleHarvest
    /\ IdleNames /\ IdleMerge

NextDl ==
    \/ StartDownloader
    \/ \E id \in all_tasks, result \in FetchResults : FetchPage(id, result)
    \/ \E id \in all_tasks : OpenPageFile(id)
    \/ \E id \in all_tasks : OpenPageFileFails(id)
    \/ \E id \in all_tasks : WriteLine(id)
    \/ \E id \in all_tasks : WriteFails(id)
    \/ \E id \in all_tasks : ClosePageFile(id)
    \/ \E id \in all_tasks : CollectFailure(id)
    \/ EndRound
    \/ LogWrite
    \/ NextRound
    \/ Finish
    \/ KillDownloader

SpecDl == InitDl /\ [][NextDl]_vars

\* a step of the program itself: the threads and the main loop keep running
\* for as long as the process is alive
DownloaderStep ==
    \/ StartDownloader
    \/ \E id \in all_tasks, result \in FetchResults : FetchPage(id, result)
    \/ \E id \in all_tasks : OpenPageFile(id)
    \/ \E id \in all_tasks : WriteLine(id)
    \/ \E id \in all_tasks : ClosePageFile(id)
    \/ \E id \in all_tasks : CollectFailure(id)
    \/ EndRound
    \/ LogWrite
    \/ NextRound
    \/ Finish

SpecDlLive == SpecDl /\ WF_vars(DownloaderStep)


\* what a run of main_downloader can find on the disk when it starts: page
\* files that are missing, empty or written, files of other names, and a log
\* of up to MaxLogLines lines, repeated or padded lines included
MaxLogLines == 2

StrayFiles == {"page_CC-MAIN-2012_9.jsonl", "tasks.jsonl"}

PageStates(id) == {ResultLines(id)} \cup {0}

DiskFiles ==
    UNION {[present \cup stray -> 0..2] : present \in SUBSET {page_filename(id) : id \in all_tasks},
                                           stray \in {{}} \cup {{f} : f \in StrayFiles}}

FoundFiles ==
    {d \in DiskFiles :
        /\ \A id \in all_tasks : page_filename(id) \in DOMAIN d => d[page_filename(id)] \in PageStates(id)
        /\ \A f \in StrayFiles : f \in DOMAIN d => d[f] = 1}

LogLines == {"CC-MAIN-2025-38_0", "CC-MAIN-2012_0", " CC-MAIN-2012_0 "}

FoundLogs == UNION {[1..n -> LogLines] : n \in 0..MaxLogLines}

InitResume ==
    /\ dlpc = "stopped"
    /\ files \in FoundFiles
    /\ log \in FoundLogs
    /\ kills = 0
    /\ MemoryCleared
    /\ IdleChoose /\ IdleDedup /\ IdleUrl /\ IdleSeg /\ IdleCall /\ IdleExtract
    /\ IdleTasks /\ IdleHarvest
    /\ IdleNames /\ IdleMerge

\* main_downloader started on such a disk, killed and restarted at any point
SpecResume == InitResume /\ [][NextDl]_vars

\* the segment downloader, killed and restarted at any point
InitSeg ==
    /\ segpc = "stopped"
    /\ dirs = <<>>
    /\ success_log = <<>>
    /\ fail_log = {}
    /\ segkills = 0
    /\ SegMemoryCleared
    /\ IdleChoose /\ IdleDedup /\ IdleUrl /\ IdleDl /\ IdleCall /\ IdleExtract
    /\ IdleTasks /\ IdleHarvest
    /\ IdleNames /\ IdleMerge

NextSeg ==
    \/ StartSegments
    \/ \E i \in InputRecords : WaitForOne(i)
    \/ Submit
    \/ EndSubmit
    \/ \E i \in InputRecords : Drain(i)
    \/ FinishSegments
    \/ \E i \in InputRecords : BeginRecord(i)
    \/ \E i \in InputRecords : AcquireDirLock(i)
    \/ \E i \in InputRecords : ChooseDirectory(i)
    \/ \E i \in InputRecords, ok \in BOOLEAN : FetchSegment(i, ok)
    \/ \E i \in InputRecords : OpenOutput(i)
    \/ \E i \in InputRecords : WriteOutput(i)
    \/ \E i \in InputRecords : OutputFails(i)
    \/ \E i \in InputRecords : AcquireSuccessLock(i)
    \/ \E i \in InputRecords : LogSuccess(i)
    \/ \E i \in InputRecords : LogSuccessFails(i)
    \/ \E i \in InputRecords : AcquireFailLock(i)
    \/ \E i \in InputRecords : LogFailure(i)
    \/ KillSegments

SpecSeg == InitSeg /\ [][NextSeg]_vars

\* one run of the segment downloader in which the directory operations can
\* fail too; main and the worker threads keep taking steps
NextSegFaults ==
    \/ StartSegments
    \/ \E i \in InputRecords : WaitForOne(i)
    \/ Submit
    \/ EndSubmit
    \/ \E i \in InputRecords : Drain(i)
    \/ FinishSegments
    \/ \E i \in InputRecords : BeginRecord(i)
    \/ \E i \in InputRecords : AcquireDirLock(i)
    \/ \E i \in InputRecords : ChooseDirectory(i)
    \/ \E i \in InputRecords : DirectoryFails(i)
    \/ \E i \in InputRecords, ok \in BOOLEAN : FetchSegment(i, ok)
    \/ \E i \in InputRecords : OpenOutput(i)
    \/ \E i \in InputRecords : WriteOutput(i)
    \/ \E i \in InputRecords : OutputFails(i)
    \/ \E i \in InputRecords : AcquireSuccessLock(i)
    \/ \E i \in InputRecords : LogSuccess(i)
    \/ \E i \in InputRecords : LogSuccessFails(i)
    \/ \E i \in InputRecords : AcquireFailLock(i)
    \/ \E i \in InputRecords : LogFailure(i)

SpecSegLive == InitSeg /\ [][NextSegFaults]_vars /\ WF_vars(NextSegFaults)

\* either downloader, killed and restarted at any point
SpecLedger == (InitDl \/ InitSeg) /\ [][NextDl \/ NextSeg]_vars

\* either downloader, main_downloader on any disk it can find
SpecRestart == (InitResume \/ InitSeg) /\ [][NextDl \/ NextSeg]_vars

\* one call of fetch_page, of either file
InitFetchPage ==
    /\ fn \in FetchPageFiles
    /\ call_pc = "request"
    /\ call_attempt = first_attempt(fn)
    /\ call_length = 0
    /\ call_requests = 0
    /\ call_last = ""
    /\ call_sleeps = <<>>
    /\ call_result = ""
    /\ call_payload = 0
    /\ IdleChoose /\ IdleDedup /\ IdleUrl /\ IdleDl /\ IdleSeg /\ IdleExtract
    /\ IdleTasks /\ IdleHarvest
    /\ IdleNames /\ IdleMerge

NextFetchPage ==
    \/ \E o \in PageOutcomes : RequestPage(o)
    \/ SleepAfterFailedPage

SpecFetchPage == InitFetchPage /\ [][NextFetchPage]_vars

\* one call of fetch_segment, of either file, for a record of either length
InitFetchSegment ==
    /\ fn \in FetchSegmentFiles
    /\ call_pc = "request"
    /\ call_attempt = first_attempt(fn)
    /\ call_length \in ByteCounts \ {0}
    /\ call_requests = 0
    /\ call_last = ""
    /\ call_sleeps = <<>>
    /\ call_result = ""
    /\ call_payload = 0
    /\ IdleChoose /\ IdleDedup /\ IdleUrl /\ IdleDl /\ IdleSeg /\ IdleExtract
    /\ IdleTasks /\ IdleHarvest
    /\ IdleNames /\ IdleMerge

NextFetchSegment ==
    \/ \E resp \in SegmentResponses, raises \in BOOLEAN : RequestSegment(resp, raises)
    \/ SleepAfterFailedSegment

SpecFetchSegment == InitFetchSegment /\ [][NextFetchSegment]_vars

\* the chunk writer, killed and restarted at any point
InitExtract ==
    /\ xpc = "stopped"
    /\ chunks = <<>>
    /\ chunk_index = 0
    /\ records_in_current_chunk = 0
    /\ output_file_handle = 0
    /\ results_left = 0
    /\ xkills = 0
    /\ IdleChoose /\ IdleDedup /\ IdleUrl /\ IdleDl /\ IdleSeg /\ IdleCall
    /\ IdleTasks /\ IdleHarvest
    /\ IdleNames /\ IdleMerge

NextExtract ==
    \/ StartExtract
    \/ ResultWithoutRecord
    \/ OpenChunk
    \/ WriteRecord
    \/ FinishExtract
    \/ KillExtract

SpecExtract == InitExtract /\ [][NextExtract]_vars

\* the two programs that number their containers
SpecContainers == (InitSeg \/ InitExtract) /\ [][NextSeg \/ NextExtract]_vars

\* create_tasks.py, killed and run again at any point
InitTasks ==
    /\ ctpc = "stopped"
    /\ tasks_file = <<>>
    /\ ctkills = 0
    /\ TasksMemoryCleared
    /\ IdleChoose /\ IdleDedup /\ IdleUrl /\ IdleDl /\ IdleSeg /\ IdleCall
    /\ IdleExtract /\ IdleHarvest
    /\ IdleNames /\ IdleMerge

NextTasks ==
    \/ StartCreateTasks
    \/ CallGetNumPages
    \/ \E resp \in ProbeResponses : ProbeRequest(resp)
    \/ ProbeSleep
    \/ SkipIndex
    \/ BuildTasks
    \/ WriteTaskLine
    \/ FlushTasks
    \/ EndCreateTasks
    \/ \E cut \in BOOLEAN : KillCreateTasks(cut)

SpecTasks == InitTasks /\ [][NextTasks]_vars

\* cc_merge_indexes.py up to the merge, killed and run again at any point
InitHarvest ==
    /\ hpc = "stopped"
    /\ batch_files = <<>>
    /\ hkills = 0
    /\ HarvestMemoryCleared
    /\ IdleChoose /\ IdleDedup /\ IdleUrl /\ IdleDl /\ IdleSeg /\ IdleCall
    /\ IdleExtract /\ IdleTasks
    /\ IdleNames /\ IdleMerge

NextHarvest ==
    \/ StartHarvest
    \/ SkipExisting
    \/ \E answer \in CountAnswers : SubmitPages(answer)
    \/ \E p \in 1..MaxPages, result \in PageResults : PageReturns(p, result)
    \/ \E p \in 1..MaxPages : CollectPage(p)
    \/ NothingToCollect
    \/ ReturnRecords
    \/ MarkProcessed
    \/ OpenBatchFile
    \/ WriteBatchRecord
    \/ CloseBatchFile
    \/ EndHarvestLoop
    \/ KillHarvest

SpecHarvest == InitHarvest /\ [][NextHarvest]_vars

\* the ids and the file names of two tasks
InitNames ==
    /\ task1 \in NamedTasks
    /\ task2 \in NamedTasks
    /\ parsed1 = <<>>
    /\ parsed2 = <<>>
    /\ IdleChoose /\ IdleDedup /\ IdleUrl /\ IdleDl /\ IdleSeg /\ IdleCall
    /\ IdleExtract /\ IdleTasks /\ IdleHarvest /\ IdleMerge

NextNames == ParseNames
SpecNames == InitNames /\ [][NextNames]_vars

\* main_merge_and_deduplicate over one to NumMergeFiles files, from line 82
InitMerge ==
    /\ mpc = "loop"
    /\ merge_input \in UNION {[1..n -> FileContents] : n \in 1..NumMergeFiles}
    /\ batch_i = 0
    /\ global_unique = EmptyMap
    /\ temp_merged = {}
    /\ merged = {}
    /\ IdleChoose /\ IdleDedup /\ IdleUrl /\ IdleDl /\ IdleSeg /\ IdleCall
    /\ IdleExtract /\ IdleTasks /\ IdleHarvest /\ IdleNames

NextMerge ==
    \/ MergeBatch
    \/ FinishMerge

SpecMerge == InitMerge /\ [][NextMerge]_vars

(***************************************************************************)
(* Claims about the record merge engine.                                   *)
(***************************************************************************)
SameStatusClass(a, b) == (a.status = "200") <=> (b.status = "200")
SameHtmlness(a, b)    == is_html(a) <=> is_html(b)

\* the orders in which the records of `seq` can arrive
Orderings(seq) ==
    {[i \in 1..Len(seq) |-> seq[f[i]]] : f \in Permutations(1..Len(seq))}

ShareOneKey(seq) ==
    /\ \A i \in 1..Len(seq) : seq[i].url # ""
    /\ \A i, j \in 1..Len(seq) : normalize_url(seq[i].url) = normalize_url(seq[j].url)

\* what the merge rule ranks a record by
Rank(rec) ==
    [status200 |-> rec.status = "200", html |-> is_html(rec),
     length |-> rec.length, timestamp |-> rec.timestamp]

\* C1: for records that share one canonical entity key, the fold of
\* choose_better_record over them, as deduplicate_records runs it, ends with
\* the same winner in every order of arrival.  Winners are compared by the
\* attributes the rule ranks, so records tied on all of them count as one
\* winner.
C1_OrderIndependentWinner ==
    (fed # <<>> /\ ShareOneKey(fed)) =>
        \A p \in Orderings(fed) :
            LET other == deduplicate_records(p, EmptyMap)
            IN  /\ DOMAIN other = DOMAIN unique
                /\ \A k \in DOMAIN unique : Rank(other[k]) = Rank(unique[k])

\* C2: of two records of the same status class and the same html-ness whose
\* lengths differ, choose_better_record returns the longer one, whichever is
\* the existing record and whatever the timestamps are.
C2_LongerRecordWins ==
    ( /\ chosen # <<>>
      /\ SameStatusClass(old, new) /\ SameHtmlness(old, new)
      /\ IsInt(old.length) /\ IsInt(new.length)
      /\ IntOf(old.length) # IntOf(new.length) )
    => chosen[1] = IF IntOf(old.length) > IntOf(new.length) THEN old ELSE new

\* C3: when exactly one of the two records has status "200",
\* choose_better_record returns that record, in either argument order and
\* for every mime type, length and timestamp.
C3_Status200Wins ==
    ( /\ chosen # <<>>
      /\ ~SameStatusClass(old, new) )
    => chosen[1] = IF old.status = "200" THEN old ELSE new

C3_Witness ==
    /\ chosen # <<>>
    /\ old.status = "200" /\ new.status = "404"
    /\ ~is_html(old) /\ is_html(new)
    /\ old.length = "90" /\ new.length = "500"
    /\ StrGreater(new.timestamp, old.timestamp)
    /\ chosen[1] = old

\* C4: when the two records are of the same status class and exactly one has
\* a mime type containing "html", choose_better_record returns the html
\* record, in either argument order and for every length and timestamp.
C4_HtmlWins ==
    ( /\ chosen # <<>>
      /\ SameStatusClass(old, new)
      /\ ~SameHtmlness(old, new) )
    => chosen[1] = IF is_html(old) THEN old ELSE new

C4_Witness ==
    /\ chosen # <<>>
    /\ old.status = "404" /\ new.status = "404"
    /\ old.mime_detected = "Application/XHTML+xml" /\ new.mime_detected = "application/pdf"
    /\ old.length = "90" /\ new.length = "500"
    /\ StrGreater(new.timestamp, old.timestamp)
    /\ chosen[1] = old

\* C5: when the existing and the candidate record agree on status class,
\* html-ness, length and timestamp, choose_better_record returns the
\* existing record.
C5_TieKeepsExisting ==
    ( /\ chosen # <<>>
      /\ SameStatusClass(old, new) /\ SameHtmlness(old, new)
      /\ old.length = new.length
      /\ old.timestamp = new.timestamp )
    => chosen[1] = old

C5_Witness ==
    /\ chosen # <<>>
    /\ old.url # new.url
    /\ old.status = "200" /\ new.status = "200"
    /\ old.mime_detected = "text/html" /\ new.mime_detected = "Application/XHTML+xml"
    /\ old.length = new.length /\ old.timestamp = new.timestamp
    /\ chosen[1] = old

KeysFed == {normalize_url(fed[i].url) : i \in {j \in 1..Len(fed) : fed[j].url # ""}}

\* C6: the dict of deduplicate_records holds exactly the canonical keys of
\* the input records that have a url, and the record under a key is one of
\* the input records carrying that key.
C6_OneInputRecordPerKey ==
    /\ DOMAIN unique = KeysFed
    /\ \A k \in DOMAIN unique :
          \E i \in 1..Len(fed) :
              /\ fed[i] = unique[k]
              /\ fed[i].url # ""
              /\ normalize_url(fed[i].url) = k

C6_Witness ==
    /\ Len(fed) = MaxRecords
    /\ \E i, j, l \in 1..Len(fed) :
          /\ fed[i].url = UrlAWww /\ fed[j].url = UrlAHttps /\ fed[l].url = UrlB
    /\ Cardinality(DOMAIN unique) = 2

(***************************************************************************)
(* Claims about normalize_url.                                             *)
(***************************************************************************)
\* C7: two URLs that differ only in scheme, in the letter case of the host,
\* in a leading "www." label or in trailing "/" of the path get the same key.
C7_SpellingsShareKey ==
    ( /\ key1 # <<>>
      /\ Lower(url1.host) = Lower(url2.host)
      /\ url1.path = url2.path
      /\ url1.query = url2.query )
    => key1 = key2

C7_Witness ==
    /\ key1 # <<>>
    /\ url1.scheme = "http" /\ url2.scheme = "https"
    /\ url1.www = "WWW." /\ url2.www = ""
    /\ url1.host = "A.Co" /\ url2.host = "a.co"
    /\ url1.path = "/x" /\ url2.path = "/x"
    /\ url1.slashes = MaxSlashes /\ url2.slashes = 0
    /\ url1.query = url2.query
    /\ key1 = key2

SameButQuery(p, q) ==
    /\ p.scheme = q.scheme /\ p.www = q.www /\ p.host = q.host
    /\ p.path = q.path /\ p.slashes = q.slashes
    /\ p.query # q.query

\* C8 as stated: two URLs with the same host and path and different query
\* strings get different keys.
C8_QueryRetained ==
    (key1 # <<>> /\ SameButQuery(url1, url2)) => key1 # key2

\* C8 amended: the key does not hold the query string; two URLs with the
\* same host and path get the same key whatever their query strings.
C8_QueryDropped ==
    (key1 # <<>> /\ SameButQuery(url1, url2)) => key1 = key2

C8_Witness ==
    /\ key1 # <<>>
    /\ SameButQuery(url1, url2)
    /\ url1.query = "?p=1" /\ url2.query = "?p=2"
    /\ key1 = <<"a.co/x">> /\ key2 = <<"a.co/x">>

(***************************************************************************)
(* Claims about killing and restarting the downloaders.                    *)
(***************************************************************************)
\* the page file of task id holds the task's full result
PageComplete(id) ==
    /\ page_filename(id) \in DOMAIN files
    /\ files[page_filename(id)] = ResultLines(id)

\* C9: when a run of main_downloader finishes, after any number of kills and
\* restarts, every task of the catalog has its full result in the output
\* directory.
C9_FinishedRunHasEveryResult ==
    dlpc = "done" => \A id \in all_tasks : PageComplete(id)

\* some batch directory holds the complete file `name`
SegmentComplete(name) ==
    \E n \in 1..Len(dirs) : name \in DOMAIN dirs[n] /\ dirs[n][name] = "full"

\* C10: in every state, a task id is in the completion log only if the write
\* of the task's output file has finished: the page file of an id in
\* main_downloader's log is complete and closed, and the file of a hash in
\* process_record's success log is complete in some batch directory.
C10_LoggedOnlyAfterWrite ==
    /\ \A k \in 1..Len(log) : PageComplete(log[k]) /\ writing # log[k]
    /\ \A k \in 1..Len(success_log) : SegmentComplete(success_log[k])

\* after a kill, the success log has an entry while another record's file is
\* being written
C10_Witness ==
    /\ segkills > 0
    /\ Len(success_log) > 0
    /\ \E i \in InputRecords : tstate[i] = "write"

(***************************************************************************)
(* Claims about what main_downloader takes as complete when it starts.     *)
(***************************************************************************)
\* a step that is the start of a run of main_downloader
RunStarts == dlpc = "stopped" /\ dlpc' # "stopped"

\* the ids a log line or a file name of the disk can stand for
KnownIds ==
    all_tasks \cup {Strip(l) : l \in LogLines} \cup {"CC-MAIN-2012_9", "tasks", ""}

\* id is a line of the completion log
InLog(id) == \E k \in 1..Len(log) : Strip(log[k]) = id

\* page_<id>.jsonl exists and is not empty
HasPage(id) == page_filename(id) \in DOMAIN files /\ files[page_filename(id)] > 0

\* C11: on resume, a task whose id is in the completion log while no output
\* file of it exists is scheduled again.
C11_LoggedWithoutFileIsRefetched ==
    [][RunStarts =>
         \A id \in all_tasks :
            (InLog(id) /\ page_filename(id) \notin DOMAIN files) => id \in tasks_to_do']_vars

\* C12: at startup the completed set is the union of the ids of the log and
\* the ids of the non-empty page files, and exactly the catalog tasks outside
\* it are scheduled.
C12_CompleteIsLogUnionFiles ==
    [][RunStarts =>
         LET complete == {id \in KnownIds : InLog(id) \/ HasPage(id)}
         IN  /\ completed_tasks_ids' = complete
             /\ dlpc' = "round" => tasks_to_do' = all_tasks \ complete
             /\ dlpc' = "done" <=> all_tasks \subseteq complete]_vars

\* a run has just started with one task complete by the log alone, one by its
\* file alone, an empty page file on the disk and something left to do
C12_Witness ==
    /\ dlpc = "round" /\ attempt = 1 /\ uncollected = tasks_to_do
    /\ \A id \in tasks_to_do : future[id] = "running"
    /\ \E id \in completed_tasks_ids : InLog(id) /\ ~HasPage(id)
    /\ \E id \in completed_tasks_ids : ~InLog(id) /\ HasPage(id)
    /\ \E id \in tasks_to_do : page_filename(id) \in DOMAIN files /\ files[page_filename(id)] = 0

\* C13: a task that is complete when a run starts is never fetched during
\* the run: no future of main_downloader belongs to an id of the completed
\* set, and no process_record call exists for a record whose hash is in
\* completed_hashes.
C13_CompleteNeverFetched ==
    /\ \A id \in completed_tasks_ids : id \notin DOMAIN future
    /\ \A i \in InputRecords :
          safe_filename(record_url(i)) \in completed_hashes => tstate[i] = "none"

\* after a kill, a run of main_downloader with a completed catalog task has
\* fetched the result of another task
C13_Witness ==
    /\ kills > 0
    /\ dlpc = "round"
    /\ completed_tasks_ids \cap all_tasks # {}
    /\ \E id \in DOMAIN future : future[id] = "list"

\* the lines of `a` are the first lines of `b`
IsPrefix(a, b) == Len(a) <= Len(b) /\ \A k \in 1..Len(a) : b[k] = a[k]

\* the log without its k-th line
WithoutLine(lines, k) == SubSeq(lines, 1, k - 1) \o SubSeq(lines, k + 1, Len(lines))

\* C14: the completion logs are append-only: every step keeps the lines
\* already written, through rounds and restarts; and a line that repeats an
\* earlier one does not change what a starting run schedules.
C14_LogAppendOnly ==
    [][/\ IsPrefix(log, log')
       /\ IsPrefix(success_log, success_log')
       /\ RunStarts =>
            \A k \in 1..Len(log) :
               (\E j \in 1..(k - 1) : Strip(log[j]) = Strip(log[k])) =>
                  tasks_to_do' = {id \in all_tasks :
                                     id \notin ids_from_files(files) \cup
                                               ids_from_log(WithoutLine(log, k))}]_vars

\* after a kill, the log starts with a repeated id and has a line that a run
\* appended
C14_Witness ==
    /\ kills > 0
    /\ Len(log) > MaxLogLines
    /\ Strip(log[1]) = Strip(log[2])

(***************************************************************************)
(* Claims about failed page tasks.                                         *)
(***************************************************************************)
\* C15: once a page task has received an HTTP 400 or 404 response, which
\* fetch_page returns as "Fatal error", no further fetch_page call is made
\* for the task during the run: its future stays what it is.
C15_FatalNeverRequestedAgain ==
    [][\A id \in all_tasks :
          (id \in DOMAIN future /\ future[id] = "Fatal error") =>
             (id \in DOMAIN future' => future'[id] = "Fatal error")]_vars

\* C16: every run of main_downloader terminates, also when a task fails on
\* every attempt.
C16_RunTerminates == <>(dlpc = "done")

(***************************************************************************)
(* Claims about one call of fetch_page and of fetch_segment.               *)
(***************************************************************************)
\* the failures that are worth another request; 400 and 404 say that the
\* page is not there
TransientOutcomes == {"503", "ConnectionError"}

\* backoff * k after the k-th of n failed attempts
BackoffSleeps(f, n) == [k \in 1..n |-> backoff(f) * k]

\* a step of the call that issues a request
IssuesRequest == call_requests' > call_requests

\* C17: one call of fetch_page issues at most `retries` requests, issues
\* another request only after a transient failure, and has slept
\* backoff * k after the k-th failed attempt when it issues the next one.
C17_BoundedRetriesWithBackoff ==
    [][(fn \in FetchPageFiles) =>
         /\ call_requests' <= retries(fn)
         /\ IssuesRequest =>
              /\ call_requests > 0 => call_last \in TransientOutcomes
              /\ call_sleeps = BackoffSleeps(fn, call_requests)]_vars

\* C18: fetch_segment never returns a payload whose length differs from the
\* requested length.
C18_ReturnedPayloadHasRequestedLength ==
    (fn \in FetchSegmentFiles /\ call_pc = "returned") => call_payload = call_length

(***************************************************************************)
(* Claims about the numbered containers.                                   *)
(***************************************************************************)
\* C19: under every interleaving of process_record calls, no batch directory
\* holds more than MAX_FILES_PER_DIR files.
C19_NoDirectoryOverCap ==
    \A n \in 1..Len(dirs) : Cardinality(DOMAIN dirs[n]) <= MAX_FILES_PER_DIR

\* the records whose call holds a directory that get_target_directory
\* returned during this run
HoldsDirectory ==
    {j \in InputRecords : tstate[j] \notin {"none", "queued", "want_dir", "in_dir"}}

\* a step in which get_target_directory returns to the call of record i
SelectsDirectory(i) == tstate[i] = "in_dir" /\ tstate'[i] = "fetch"

\* a step in which the chunk writer opens a chunk file
OpensChunk == output_file_handle' # 0 /\ output_file_handle' # output_file_handle

\* C20: the container number chosen never decreases, within a run and across
\* restarts, and a full or closed container is never chosen again: every
\* directory get_target_directory returns is the newest one, is not below
\* any directory returned or created before, and is not full; every chunk
\* the chunk writer opens has a number above those of all chunk files.
C20_ContainerNumbersOnlyGrow ==
    [][/\ \A i \in InputRecords :
             SelectsDirectory(i) =>
                /\ tdir'[i] = Len(dirs') - 1
                /\ tdir'[i] >= Len(dirs) - 1
                /\ \A j \in HoldsDirectory : tdir'[i] >= tdir[j]
                /\ \A n \in 1..Len(dirs) :
                      Cardinality(DOMAIN dirs[n]) >= MAX_FILES_PER_DIR => tdir'[i] # n - 1
       /\ OpensChunk => \A n \in DOMAIN chunks : output_file_handle' > n]_vars

\* after a kill, a call holds the second batch directory while the first one
\* is full
C20_Witness ==
    /\ segkills > 0
    /\ Len(dirs) = 2
    /\ Cardinality(DOMAIN dirs[1]) >= MAX_FILES_PER_DIR
    /\ \E i \in InputRecords : tstate[i] = "fetch" /\ tdir[i] = 1

\* the batch directories that hold the output file of record i
containers_of(i) ==
    {n \in 1..Len(dirs) : safe_filename(record_url(i)) \in DOMAIN dirs[n]}

\* C21: after any sequence of runs, crashes and restarts of the segment
\* downloader, the output file of a task key exists in at most one batch_NNNN
\* directory.
C21_FileInAtMostOneContainer ==
    \A i \in InputRecords : Cardinality(containers_of(i)) <= 1

(***************************************************************************)
(* Claims about the task enumeration (create_tasks.py).                    *)
(***************************************************************************)
\* how many lines of the tasks file json.loads reads as the task (idx, p)
task_count(data, index_name, p) ==
    Cardinality({k \in 1..Len(data) :
                   data[k].json /\ data[k].index = index_name /\ data[k].page = p})

\* C22: when the enumeration has written the tasks of a segment whose page
\* count is n, the tasks file holds exactly one task for each page 0..n-1 of
\* that segment and no task of it for any other page.
C22_OneTaskPerPage ==
    (ctpc = "write" /\ tasks_written = Len(tasks_for_index)) =>
        \A p \in 0..MaxPages :
            task_count(tasks_file, indexes_to_query[index_pos], p)
                = IF p < num_pages[1] THEN 1 ELSE 0

\* C23: after any number of runs of the enumeration against the same tasks
\* file, no (segment, page) has two tasks in the file; a run issues no probe
\* request and writes no task for a segment that had a task in the file when
\* the run read it.
C23_NoDuplicateTasks ==
    /\ \A k \in 1..Len(INDEXES), p \in 0..MaxPages :
          task_count(tasks_file, INDEXES[k], p) <= 1
    /\ ctpc \in {"probe", "probe_sleep", "probed"} =>
          \A p \in 0..MaxPages :
              task_count(tasks_file, indexes_to_query[index_pos], p) = 0
    /\ ctpc = "write" =>
          \A p \in 0..MaxPages :
              task_count(tasks_file, indexes_to_query[index_pos], p)
                  <= IF p < tasks_written THEN 1 ELSE 0

\* a run that found a task of every index in the file and returned at once
C23_Witness ==
    /\ ctpc = "done"
    /\ processed_indexes = {INDEXES[k] : k \in 1..Len(INDEXES)}
    /\ Len(tasks_file) > Len(INDEXES)
    /\ probe_requests = 0

\* C25: when every attempt of the page-count probe of a segment fails,
\* get_num_pages returns the default page count 1.
C25_FailedProbeGivesOnePage ==
    (ctpc = "probed" /\ probe_response[1].raised) => num_pages = <<1>>

\* the answer has no line that is a JSON object with "pages"
NoPageCount(resp) ==
    /\ ~resp.raised
    /\ \A k \in 1..Len(resp.lines) : ~resp.lines[k].json \/ resp.lines[k].pages = <<>>

\* C26: get_num_pages issues at most 5 probe requests for a segment, sleeps
\* attempt * backoff after the failed attempt number `attempt` when another
\* attempt follows, and returns the default 1 on the first answer that has no
\* page count.
C26_BoundedProbeWithLinearBackoff ==
    /\ probe_requests <= 5
    /\ probe_sleeps = [k \in 1..Len(probe_sleeps) |-> k * probe_backoff]
    /\ ctpc \in {"probe_sleep", "probed"} => probe_requests = Len(probe_sleeps) + 1
    /\ ctpc = "probe" => probe_requests = Len(probe_sleeps)
    /\ (ctpc = "probed" /\ NoPageCount(probe_response[1])) => num_pages = <<1>>

\* the third request, after two failures and two sleeps, is answered without
\* a page count
C26_Witness ==
    /\ ctpc = "probed"
    /\ NoPageCount(probe_response[1])
    /\ probe_requests = 3
    /\ probe_sleeps = <<3, 6>>

(***************************************************************************)
(* Claims about the per-index harvester (cc_merge_indexes.py).             *)
(***************************************************************************)
\* C24: a segment whose fetch failed is attempted again on the next run: the
\* main loop leaves no batch file for it, since a batch file makes every
\* later run skip the segment.
C24_FailedSegmentLeavesNoFile ==
    [][(hpc = "returned" /\ has_failed /\ hpc' = "loop")
         => INDEXES[idx_pos] \notin DOMAIN batch_files']_vars

\* the pages of the current index whose fetch_page call returned records
PagesWithRecords == {p \in DOMAIN page_futures : page_futures[p] = "records"}

\* C28: fetch_from_index returns the empty list when a page of the segment
\* finally failed (fetch_page returned None), and otherwise the records of
\* all pages 0..num_pages-1, each once.
C28_EmptyOnFailureElseAllPages ==
    hpc = "returned" =>
        /\ DOMAIN page_futures = 1..h_num_pages
        /\ IF \E p \in DOMAIN page_futures : page_futures[p] = "None"
           THEN recs = <<>>
           ELSE /\ Len(recs) = Cardinality(PagesWithRecords)
                /\ \A p \in PagesWithRecords :
                      \E k \in 1..Len(recs) :
                          <<recs[k]>> = page_result(INDEXES[idx_pos], p - 1, "records")

\* one page gave records, the other failed: the empty list
C28_Witness ==
    /\ hpc = "returned"
    /\ \E p, q \in DOMAIN page_futures :
          page_futures[p] = "records" /\ page_futures[q] = "None"
    /\ all_records # <<>>
    /\ recs = <<>>

C29_FailedWriteNotFetchedAgain ==
    [][\A id \in all_tasks :
          (id \in DOMAIN future /\ future[id] = "list" /\ id \in tasks_failed_this_run)
              => ~(id \in DOMAIN future' /\ future'[id] = "running")]_vars

ThreadsIn(section) == {i \in InputRecords : tstate[i] = section}

\* C31: no two worker threads are at the same time inside the append to the
\* success log, inside the append to the failure log, or inside the selection
\* of the current batch directory.
C31_SectionsMutuallyExclusive ==
    /\ Cardinality(ThreadsIn("in_dir")) <= 1
    /\ Cardinality(ThreadsIn("in_succlog")) <= 1
    /\ Cardinality(ThreadsIn("in_faillog")) <= 1

\* one thread is inside log_success while another one waits for the lock
C31_Witness ==
    /\ ThreadsIn("in_succlog") # {}
    /\ ThreadsIn("want_succlog") # {}

\* the records of this run that were handed to the executor
SubmittedRecords == {i \in InputRecords : tstate[i] # "none"}

\* C32: when a run of the segment downloader ends, success_count +
\* failed_count is the number of tasks the run submitted, and success + failed
\* + skipped (total_records_in_file - total_to_download) is the number of
\* records of the input file.
C32_CountsAddUp ==
    segpc = "done" =>
        /\ success_count + failed_count = Cardinality(SubmittedRecords)
        /\ success_count + failed_count + (Cardinality(InputRecords) - total_to_download)
              = Cardinality(InputRecords)

\* a run after a kill ends with a success, a failure and a skipped record
C32_Witness ==
    /\ segpc = "done"
    /\ segkills = 1
    /\ success_count = 1 /\ failed_count = 1
    /\ total_to_download = 2

(***************************************************************************)
(* Claims about what a killed run leaves on the disk.                      *)
(***************************************************************************)
\* C33: every task that main_downloader counts as complete at startup
\* because of its output file has its entire result set in that file, also
\* after a kill in the middle of writing the file.
C33_CompleteByFileHasEveryResult ==
    [][RunStarts =>
         \A id \in all_tasks :
            (HasPage(id) /\ id \in completed_tasks_ids') => PageComplete(id)]_vars

\* the enumeration is killed while the tasks of an index are being written
KilledWhileWriting == ctpc = "write" /\ ctpc' = "stopped"

\* C34: an index that get_processed_indexes reports as processed has all its
\* tasks (pages 0..pageCount-1) in the tasks file, also when the run that
\* wrote them was killed during the write.
C34_ProcessedMeansAllPages ==
    [][KilledWhileWriting =>
         (indexes_to_query[index_pos] \in get_processed_indexes(tasks_file')
            => \A p \in 0..(num_pages[1] - 1) :
                  task_count(tasks_file', indexes_to_query[index_pos], p) = 1)]_vars

(***************************************************************************)
(* Claims about the rounds of one run of main_downloader.                  *)
(***************************************************************************)
\* the ids of a batch
BatchIds(batch) == {batch[k] : k \in 1..Len(batch)}

\* the main loop goes from one round to the next
RoundFollows == dlpc = "log" /\ dlpc' = "round"

\* C36: within a run of main_downloader the tasks submitted in the next round
\* are exactly the tasks of the round that did not succeed in it, and a task
\* that succeeded (its id went to the completion log) is in no later round.
C36_NextRoundIsTheFailedTasks ==
    [][/\ RoundFollows =>
            /\ DOMAIN future' = tasks_to_do \ BatchIds(tasks_completed_this_batch)
            /\ \A id \in DOMAIN future' : future'[id] = "running"
       /\ dlpc' = "round" => \A id \in DOMAIN future' : ~InLog(id)']_vars

\* the second round of a run that was never killed: one task succeeded in
\* the first round, the two that failed are fetched again
C36_Witness ==
    /\ dlpc = "round" /\ attempt = 2 /\ kills = 0
    /\ Cardinality(DOMAIN future) = 2
    /\ \E id \in all_tasks : InLog(id) /\ PageComplete(id) /\ id \notin DOMAIN future

(***************************************************************************)
(* Claims about the end of a run whose failures come to an end.            *)
(***************************************************************************)
\* a fetch that ends in an error string, or an open or a write that raises
FailureStep ==
    \E id \in all_tasks :
       \/ \E result \in FetchResults \ {"list"} : FetchPage(id, result)
       \/ OpenPageFileFails(id)
       \/ WriteFails(id)

\* from some moment on no fetch and no write fails
FailuresEnd == <>[][~FailureStep]_vars

\* page_<id>.jsonl exists
PageWritten(id) == page_filename(id) \in DOMAIN files

C37_IdSurvivesFileName ==
    parsed1 # <<>> =>
       /\ parsed1[1] = task_id(task1)
       /\ parsed2[1] = task_id(task2)
       /\ task1 # task2 => parsed1 # parsed2

\* two tasks whose ids differ in their last character only, read back off
\* the file names
C37_Witness ==
    /\ parsed1 # <<>>
    /\ task1.index = task2.index /\ task1.page = 1 /\ task2.page = 11
    /\ parsed1[1] = task1.index \o "_1"
    /\ parsed2[1] = task1.index \o "_11"

(***************************************************************************)
(* Claims about the batched merge.                                         *)
(***************************************************************************)
\* the files the loop has gone through
FilesMerged == IF batch_i < Len(merge_input) THEN batch_i ELSE Len(merge_input)

\* C38: the dict that the batched merge builds, batch by batch with the
\* running dict as existing_map, is the dict of one deduplicate_records pass
\* over the records of the same files in the same order.
C38_BatchedMergeIsOnePass ==
    mpc \in {"loop", "done"} =>
       global_unique =
          deduplicate_records(load_files(merge_input, 1, FilesMerged), EmptyMap)

\* the files make more than one batch; the page of the first batch is met again in
\* the last, where the newer record replaces the one that was kept
C38_Witness ==
    /\ mpc = "done"
    /\ Len(merge_input) = NumMergeFiles
    /\ batch_i >= NumMergeFiles
    /\ \E r \in MergeRecords :
          /\ merge_input[1] = <<r>>
          /\ merge_input[NumMergeFiles] # <<>>
          /\ merge_input[NumMergeFiles][1] # r
          /\ normalize_url(r.url) \in DOMAIN global_unique
          /\ global_unique[normalize_url(r.url)] = merge_input[NumMergeFiles][1]
    /\ merged = {global_unique[k] : k \in DOMAIN global_unique}

====
